---------------------------- MODULE Spec2Model ----------------------------
(***************************************************************************)
(* Model of the XIT bug registry (registry/xit.py): the record model, the  *)
(* decoding and encoding of registry documents, the classification of one  *)
(* expected/actual pair, and the verify, compare, merge, edit and meta     *)
(* commands of XITTestRegistryCLI.                                         *)
(*                                                                         *)
(* Strings are modelled by small naturals; the order of the naturals       *)
(* stands for Python's string order (cmp).  Python's None is the value     *)
(* None below.  A Python dict is a function whose DOMAIN is its key set, a *)
(* Python list is a sequence.  An XML element is a record of its           *)
(* attributes (attrib, a dict), its text and the lists of its children.    *)
(* The date of a registry and the extra attributes of a fix are not        *)
(* modelled; the commands are run with -f, on a file.                      *)
(***************************************************************************)
EXTENDS Integers, Sequences, FiniteSets, TLC

VARIABLES
    pc,        \* position of the invocation: "start", then the command's outcome
    reg1,      \* first registry operand (XITTestRegistry) or None
    reg2,      \* second registry operand (XITTestRegistry) or None
    old1,      \* reg1 as it was when the invocation started
    regs1,     \* registries decoded from the first document (args.file / args.reg1)
    regs2,     \* registries decoded from the second document (args.reg2)
    results,   \* list of JUnitTestResult decoded from args.results
    args,      \* parsed command line: regname, check_all, results (path)
    rows,      \* (color, values) rows handed to the printer for the test table
    meta,      \* rows handed to the printer for the module-version table
    outfile,   \* the file registry_from_string writes: written or not, and the document
    expected,  \* expected side of one classification (XITTest) or None
    actual,    \* actual side of one classification (test case) or None
    document,  \* a registry document as read by fromXML: its registry elements
    tcase,     \* one XITTest under a sequence of add/remove calls
    compared,    \* the (reg1, reg2) pairs handed to compare_registry, in call order
    failed_regs, \* compare_registries' list of names it could not compare
    regfile,   \* content of the registry file args.file on disk
    procs      \* the edit invocations running on file: position, args, loaded registry

vars == <<pc, reg1, reg2, old1, regs1, regs2, results, args, rows, meta, outfile,
          expected, actual, document, tcase, compared, failed_regs, regfile, procs>>

(* the variables of the codec, of the test-case edits, of the document
   comparison and of the in-place edits *)
codecVars == <<document, tcase>>
compareVars == <<compared, failed_regs>>
editVars == <<regfile, procs>>

---------------------------------------------------------------------------
(* Bounds of the model *)

MaxTests == 2      \* test cases per input registry
MaxResults == 2    \* live results per results file
MaxRegs == 2       \* registries per input document

(* Alphabets: names of suites, cases and registries *)
SuiteNames == {1, 2}
CaseNames == {1, 2}
RegNames == 1..MaxRegs

None == [none |-> TRUE]

(* the output file before registry_from_string wrote to it *)
NotWritten == [written |-> FALSE, doc |-> << >>]

(* args.regname when -r is not given (None) *)
NoName == 0

(* the repo of a module version that has none (None) *)
NoRepo == 0

(* class Colors *)
DEFAULT == 0
RED == 1
GREEN == 2
BLUE == 3

---------------------------------------------------------------------------
(* Record model *)

(* XITBug(bug_type, url) *)
XITBug(bug_type, url) == [type |-> bug_type, url |-> url]

(* XITFix.createFromType for the known types *)
XITFix(type, text) == [type |-> type, text |-> text]

(* XITInfo.createFromType for the known types *)
XITInfo(type, text) == [type |-> type, text |-> text]

(* XITModuleVersion(module, version, type, repo) *)
XITModuleVersion(module, version, type, repo) ==
    [module |-> module, version |-> version, type |-> type, repo |-> repo]

(* XITTest(suite, name, success): status is a bool, the three lists are empty *)
XITTest(suite, name, success) ==
    [suite |-> suite, name |-> name, status |-> success,
     bugs |-> << >>, info |-> << >>, fixes |-> << >>]

(* JUnitTestResult(suite, name), after zero or more addFailure calls:
   status is True without failures and False with one or more *)
JUnitTestResult(suite, name, nfailures) ==
    [suite |-> suite, name |-> name, status |-> (nfailures = 0)]

(* Python's cmp on two strings (here naturals): -1, 0 or 1 *)
cmp(a, b) == IF a < b THEN -1 ELSE IF a = b THEN 0 ELSE 1

(* Python's cmp on two bools: False < True *)
cmpBool(a, b) == IF a = b THEN 0 ELSE IF b THEN -1 ELSE 1

(* XITTestCase.__cmp__: a test case is greater than None; otherwise suite
   first, then name *)
XITTestCase_cmp(self, other) ==
    IF other = None THEN 1
    ELSE LET rc == cmp(self.suite, other.suite)
         IN  IF rc = 0 THEN cmp(self.name, other.name) ELSE rc

(* x == None and x != None on a test case go through __cmp__ *)
IsNone(x) == IF x = None THEN TRUE ELSE XITTestCase_cmp(x, None) = 0

(* Python's cmp on the tuples (suite, name, status) of listTestNames *)
cmpTuple(a, b) ==
    IF cmp(a[1], b[1]) # 0 THEN cmp(a[1], b[1])
    ELSE IF cmp(a[2], b[2]) # 0 THEN cmp(a[2], b[2])
    ELSE cmpBool(a[3], b[3])

(* sorted(results): a list of test cases, ascending by __cmp__; stable *)
RECURSIVE insortCase(_, _)
insortCase(list, x) ==
    IF list = << >> THEN <<x>>
    ELSE IF XITTestCase_cmp(Head(list), x) > 0 THEN <<x>> \o list
    ELSE <<Head(list)>> \o insortCase(Tail(list), x)

RECURSIVE sortedCasesFrom(_, _)
sortedCasesFrom(acc, list) ==
    IF list = << >> THEN acc
    ELSE sortedCasesFrom(insortCase(acc, Head(list)), Tail(list))

(* the results in document order, not sorted *)
unsortedCases(list) == list

sortedCases(list) == sortedCasesFrom(<< >>, list)

(* sorted(listTestNames()): a list of tuples, ascending by tuple order *)
RECURSIVE insortTuple(_, _)
insortTuple(list, x) ==
    IF list = << >> THEN <<x>>
    ELSE IF cmpTuple(Head(list), x) > 0 THEN <<x>> \o list
    ELSE <<Head(list)>> \o insortTuple(Tail(list), x)

RECURSIVE sortedTuplesFrom(_, _)
sortedTuplesFrom(acc, list) ==
    IF list = << >> THEN acc
    ELSE sortedTuplesFrom(insortTuple(acc, Head(list)), Tail(list))

sortedTuples(list) == sortedTuplesFrom(<< >>, list)

(* sorted(dict.iteritems()): the keys of a dict in ascending order *)
RECURSIVE sortedKeys(_)
sortedKeys(S) ==
    IF S = {} THEN << >>
    ELSE LET m == CHOOSE x \in S : \A y \in S : x <= y
         IN  <<m>> \o sortedKeys(S \ {m})

(* x in list: Python's membership test by __eq__ / __cmp__ on (type, text) *)
contains(list, x) == \E i \in 1..Len(list) : list[i] = x

(* list.remove(x): the list without its first element equal to x *)
RECURSIVE remove(_, _)
remove(list, x) ==
    IF list = << >> THEN << >>
    ELSE IF Head(list) = x THEN Tail(list)
    ELSE <<Head(list)>> \o remove(Tail(list), x)

(* addBug without the membership test *)
addBug_always(test, bug) == [test EXCEPT !.bugs = Append(@, bug)]

(* XITTest.addBug: append unless an equal bug is in the list *)
addBug(test, bug) ==
    IF contains(test.bugs, bug) THEN test
    ELSE [test EXCEPT !.bugs = Append(@, bug)]

(* XITTest.addInfo: append unless an equal info is in the list *)
addInfo(test, info) ==
    IF contains(test.info, info) THEN test
    ELSE [test EXCEPT !.info = Append(@, info)]

(* XITTest.addFix: append unless an equal fix is in the list *)
addFix(test, fix) ==
    IF contains(test.fixes, fix) THEN test
    ELSE [test EXCEPT !.fixes = Append(@, fix)]

(* XITTest.removeBug: remove the bug; the ValueError of list.remove for a
   bug that is not in the list is caught *)
removeBug(test, bug) ==
    IF contains(test.bugs, bug) THEN [test EXCEPT !.bugs = remove(@, bug)]
    ELSE test

(* XITTest.removeInfo *)
removeInfo(test, info) ==
    IF contains(test.info, info) THEN [test EXCEPT !.info = remove(@, info)]
    ELSE test

(* XITTest.removeFix *)
removeFix(test, fix) ==
    IF contains(test.fixes, fix) THEN [test EXCEPT !.fixes = remove(@, fix)]
    ELSE test

---------------------------------------------------------------------------
(* XITTestRegistry *)

(* XITTestRegistry.getTest: tests[testsuite][testcase], None on KeyError *)
getTest(reg, testsuite, testcase) ==
    IF testsuite \in DOMAIN reg.tests /\ testcase \in DOMAIN reg.tests[testsuite]
    THEN reg.tests[testsuite][testcase]
    ELSE None

(* addTest that keeps the entry the registry already has for the identity *)
addTest_keep(reg, test) ==
    LET suite == IF test.suite \in DOMAIN reg.tests THEN reg.tests[test.suite] ELSE << >>
        suite2 == [n \in DOMAIN suite \cup {test.name} |->
                      IF n \in DOMAIN suite THEN suite[n] ELSE test]
    IN  [reg EXCEPT !.tests =
            [s \in DOMAIN reg.tests \cup {test.suite} |->
                IF s = test.suite THEN suite2 ELSE reg.tests[s]]]

(* XITTestRegistry.addTest: create the suite's dict if missing, then store
   the test under its name, replacing an earlier one *)
addTest(reg, test) ==
    LET suite == IF test.suite \in DOMAIN reg.tests THEN reg.tests[test.suite] ELSE << >>
        suite2 == [n \in DOMAIN suite \cup {test.name} |->
                      IF n = test.name THEN test ELSE suite[n]]
    IN  [reg EXCEPT !.tests =
            [s \in DOMAIN reg.tests \cup {test.suite} |->
                IF s = test.suite THEN suite2 ELSE reg.tests[s]]]

(* XITTestRegistry._from_list: dict[suite][name] of a list of test cases *)
RECURSIVE from_list(_, _)
from_list(l, list_in) ==
    IF list_in = << >> THEN l
    ELSE from_list(addTest([tests |-> l], Head(list_in)).tests, Tail(list_in))

(* XITTestRegistry(name, test_cases): no module versions *)
XITTestRegistry(name, test_cases) ==
    [name |-> name, tests |-> from_list(<< >>, test_cases), moduleversions |-> << >>]

(* XITTestRegistry.listTestNames: (suite, name, status) of all tests, suites
   ascending and the cases of a suite ascending *)
RECURSIVE listSuite(_, _, _)
listSuite(reg, suite_name, names) ==
    IF names = << >> THEN << >>
    ELSE <<<<suite_name, Head(names), reg.tests[suite_name][Head(names)].status>>>>
         \o listSuite(reg, suite_name, Tail(names))

RECURSIVE listSuites(_, _)
listSuites(reg, suites) ==
    IF suites = << >> THEN << >>
    ELSE listSuite(reg, Head(suites), sortedKeys(DOMAIN reg.tests[Head(suites)]))
         \o listSuites(reg, Tail(suites))

listTestNames(reg) == listSuites(reg, sortedKeys(DOMAIN reg.tests))

---------------------------------------------------------------------------
(* Classification *)

(* str(status).lower() *)
strLower(status) == IF status THEN "true" ELSE "false"

(* the uncaught exception of an attribute access on None *)
AttributeError == [raise |-> "AttributeError"]

(* verify_one_result with the colours of a mismatch exchanged *)
verify_one_result_swapped(t, r) ==
    IF ~IsNone(t) /\ ~IsNone(r)
    THEN [color |-> IF strLower(t.status) # strLower(r.status)
                    THEN (IF r.status = TRUE THEN RED ELSE GREEN)
                    ELSE DEFAULT,
          values |-> <<IF strLower(t.status) # strLower(r.status) THEN "XX"
                       ELSE IF t.status THEN "++" ELSE "--",
                       t.suite, t.name, strLower(r.status), strLower(t.status)>>]
    ELSE IF ~IsNone(t) /\ IsNone(r)
    THEN [color |-> BLUE, values |-> <<"??", t.suite, t.name, "", strLower(t.status)>>]
    ELSE IF r = None THEN AttributeError
    ELSE [color |-> BLUE, values |-> <<"??", r.suite, r.name, strLower(r.status), "">>]

(* XITTestRegistryCLI.verify_one_result: (color, (status_match, suite, name,
   status, expected_status)) *)
verify_one_result(t, r) ==
    IF ~IsNone(t) /\ ~IsNone(r)
    THEN [color |-> IF strLower(t.status) # strLower(r.status)
                    THEN (IF r.status = TRUE THEN GREEN ELSE RED)
                    ELSE DEFAULT,
          values |-> <<IF strLower(t.status) # strLower(r.status) THEN "XX"
                       ELSE IF t.status THEN "++" ELSE "--",
                       t.suite, t.name, strLower(r.status), strLower(t.status)>>]
    ELSE IF ~IsNone(t) /\ IsNone(r)
    THEN [color |-> BLUE, values |-> <<"??", t.suite, t.name, "", strLower(t.status)>>]
    ELSE IF r = None THEN AttributeError
    ELSE [color |-> BLUE, values |-> <<"??", r.suite, r.name, strLower(r.status), "">>]

---------------------------------------------------------------------------
(* Encoding *)

(* Python's order of the type strings used in the registry; "other" stands
   for a type string none of the classes knows *)
typeOrd(t) ==
    CASE t = "bugzilla" -> 1
      [] t = "git" -> 2
      [] t = "other" -> 3
      [] t = "rpm" -> 4
      [] t = "text" -> 5
      [] t = "url" -> 6

(* lexicographic order of two equally long tuples of numbers: a after b *)
keyAfter(a, b) ==
    \E i \in 1..Len(a) : a[i] > b[i] /\ \A j \in 1..(i - 1) : a[j] = b[j]

(* sorted(list) by __cmp__, on a list of (key, item) pairs; stable *)
RECURSIVE insortKeyed(_, _)
insortKeyed(list, x) ==
    IF list = << >> THEN <<x>>
    ELSE IF keyAfter(Head(list).key, x.key) THEN <<x>> \o list
    ELSE <<Head(list)>> \o insortKeyed(Tail(list), x)

RECURSIVE sortedKeyedFrom(_, _)
sortedKeyedFrom(acc, list) ==
    IF list = << >> THEN acc
    ELSE sortedKeyedFrom(insortKeyed(acc, Head(list)), Tail(list))

sortedKeyed(list) ==
    LET s == sortedKeyedFrom(<< >>, list) IN [i \in 1..Len(s) |-> s[i].item]

(* XITTest.getBugs: sorted by XITBug.__cmp__, (type, url) *)
getBugs(test) ==
    sortedKeyed([i \in 1..Len(test.bugs) |->
        [key |-> <<typeOrd(test.bugs[i].type), test.bugs[i].url>>, item |-> test.bugs[i]]])

(* XITTest.getFixes: sorted by XITFix.__cmp__, (type, text) *)
getFixes(test) ==
    sortedKeyed([i \in 1..Len(test.fixes) |->
        [key |-> <<typeOrd(test.fixes[i].type), test.fixes[i].text>>, item |-> test.fixes[i]]])

(* XITTest.getInfo: sorted by XITInfo.__cmp__, (type, text) *)
getInfo(test) ==
    sortedKeyed([i \in 1..Len(test.info) |->
        [key |-> <<typeOrd(test.info[i].type), test.info[i].text>>, item |-> test.info[i]]])

(* sorted(r.moduleversions): by XITModuleVersion.__cmp__, (module, type, version) *)
sortedModuleVersions(moduleversions) ==
    sortedKeyed([i \in 1..Len(moduleversions) |->
        [key |-> <<moduleversions[i].module, typeOrd(moduleversions[i].type),
                   moduleversions[i].version>>,
         item |-> moduleversions[i]]])

(* an XML element with one attribute, type, and a text: E.bug(url) with
   set("type", ...), and likewise E.fix and E.testinfo *)
typedElement(type, text) == [attrib |-> [k \in {"type"} |-> type], text |-> text]

(* the moduleversion element toXML writes: name and type, and repo if the
   module version has one *)
xmlModuleVersion(modversion) ==
    [attrib |-> [k \in (IF modversion.repo = NoRepo THEN {"name", "type"}
                        ELSE {"name", "type", "repo"}) |->
                    CASE k = "name" -> modversion.module
                      [] k = "type" -> modversion.type
                      [] k = "repo" -> modversion.repo],
     text |-> modversion.version]

(* the testcase element toXML writes for a test *)
xmlTestcase(t) ==
    [name |-> t.name, success |-> strLower(t.status),
     bug |-> [i \in 1..Len(getBugs(t)) |->
                 typedElement(getBugs(t)[i].type, getBugs(t)[i].url)],
     fix |-> [i \in 1..Len(getFixes(t)) |->
                 typedElement(getFixes(t)[i].type, getFixes(t)[i].text)],
     testinfo |-> [i \in 1..Len(getInfo(t)) |->
                      typedElement(getInfo(t)[i].type, getInfo(t)[i].text)]]

(* the testsuite element toXML writes: the cases by ascending name *)
xmlTestsuite(suite_name, suite) ==
    LET names == sortedKeys(DOMAIN suite)
    IN  [name |-> suite_name,
         testcase |-> [i \in 1..Len(names) |-> xmlTestcase(suite[names[i]])]]

(* the registry element toXML writes: meta, then the suites by ascending name *)
xmlRegistry(r) ==
    LET suites == sortedKeys(DOMAIN r.tests)
        modversions == sortedModuleVersions(r.moduleversions)
    IN  [name |-> r.name,
         moduleversion |-> [i \in 1..Len(modversions) |->
                               xmlModuleVersion(modversions[i])],
         testsuite |-> [i \in 1..Len(suites) |->
                          xmlTestsuite(suites[i], r.tests[suites[i]])]]

(* XITTestRegistry.toXML(others): the registries of others, in list order;
   self alone if others is empty *)
toXML(self, others) ==
    LET list == IF Len(others) = 0 THEN <<self>> ELSE others
    IN  [i \in 1..Len(list) |-> xmlRegistry(list[i])]

---------------------------------------------------------------------------
(* Decoding *)

(* uncaught exceptions of the decoder *)
ValueError == [raise |-> "ValueError"]
KeyError == [raise |-> "KeyError"]

(* str2bool on the text of a success attribute *)
str2bool(val) ==
    IF val \in {"True", "true", "1"} THEN [raise |-> FALSE, value |-> TRUE]
    ELSE IF val \in {"False", "false", "0"} THEN [raise |-> FALSE, value |-> FALSE]
    ELSE [raise |-> TRUE, value |-> ValueError]

(* createFromType that builds a fix of whatever type it is given *)
XITFix_createFromType_any(type, text) == [raise |-> FALSE, value |-> XITFix(type, text)]

(* XITFix.createFromType *)
XITFix_createFromType(type, text) ==
    IF type = "git" THEN [raise |-> FALSE, value |-> XITFix("git", text)]
    ELSE IF type = "rpm" THEN [raise |-> FALSE, value |-> XITFix("rpm", text)]
    ELSE [raise |-> TRUE, value |-> ValueError]

(* XITInfo.createFromType *)
XITInfo_createFromType(type, text) ==
    IF type = "text" THEN [raise |-> FALSE, value |-> XITInfo("text", text)]
    ELSE IF type = "url" THEN [raise |-> FALSE, value |-> XITInfo("url", text)]
    ELSE [raise |-> TRUE, value |-> ValueError]

(* fromXML, the bug children of a testcase: type defaults to "bugzilla" *)
RECURSIVE decodeBugs(_, _)
decodeBugs(test, elems) ==
    IF elems = << >> THEN test
    ELSE LET bug == Head(elems)
             type == IF "type" \in DOMAIN bug.attrib THEN bug.attrib["type"]
                     ELSE "bugzilla"
         IN  decodeBugs(addBug(test, XITBug(type, bug.text)), Tail(elems))

(* fromXML, the testinfo children: type defaults to "text" *)
RECURSIVE decodeInfo(_, _)
decodeInfo(test, elems) ==
    IF elems = << >> THEN [raise |-> FALSE, value |-> test]
    ELSE LET info == Head(elems)
             type == IF "type" \in DOMAIN info.attrib THEN info.attrib["type"]
                     ELSE "text"
             created == XITInfo_createFromType(type, info.text)
         IN  IF created.raise THEN created
             ELSE decodeInfo(addInfo(test, created.value), Tail(elems))

(* fromXML, the fix children: fix.attrib["type"] without a default *)
RECURSIVE decodeFixes(_, _)
decodeFixes(test, elems) ==
    IF elems = << >> THEN [raise |-> FALSE, value |-> test]
    ELSE LET fix == Head(elems)
         IN  IF "type" \notin DOMAIN fix.attrib
             THEN [raise |-> TRUE, value |-> KeyError]
             ELSE LET created == XITFix_createFromType(fix.attrib["type"], fix.text)
                  IN  IF created.raise THEN created
                      ELSE decodeFixes(addFix(test, created.value), Tail(elems))

(* fromXML, one testcase element: the XITTest with its bugs, notes and fixes *)
decodeTestcase(suite_name, testcase) ==
    LET success == str2bool(testcase.success)
    IN  IF success.raise THEN success
        ELSE LET withBugs == decodeBugs(XITTest(suite_name, testcase.name, success.value),
                                        testcase.bug)
                 withInfo == decodeInfo(withBugs, testcase.testinfo)
             IN  IF withInfo.raise THEN withInfo
                 ELSE decodeFixes(withInfo.value, testcase.fix)

(* fromXML, the testcase elements of one testsuite element: reg.addTest of
   each *)
RECURSIVE decodeTestcases(_, _, _)
decodeTestcases(reg, suite_name, testcases) ==
    IF testcases = << >> THEN [raise |-> FALSE, value |-> reg]
    ELSE LET t == decodeTestcase(suite_name, Head(testcases))
         IN  IF t.raise THEN t
             ELSE decodeTestcases(addTest(reg, t.value), suite_name, Tail(testcases))

(* fromXML, the testsuite elements of one registry element *)
RECURSIVE decodeSuites(_, _)
decodeSuites(reg, suites) ==
    IF suites = << >> THEN [raise |-> FALSE, value |-> reg]
    ELSE LET r == decodeTestcases(reg, Head(suites).name, Head(suites).testcase)
         IN  IF r.raise THEN r
             ELSE decodeSuites(r.value, Tail(suites))

(* fromXML, one moduleversion element: type defaults to "git", repo to None *)
decodeModuleVersion(modversion) ==
    XITModuleVersion(modversion.attrib["name"], modversion.text,
                     IF "type" \in DOMAIN modversion.attrib
                     THEN modversion.attrib["type"] ELSE "git",
                     IF "repo" \in DOMAIN modversion.attrib
                     THEN modversion.attrib["repo"] ELSE NoRepo)

(* fromXML, one registry element *)
decodeRegistry(registry) ==
    decodeSuites([XITTestRegistry(registry.name, << >>) EXCEPT
                     !.moduleversions =
                        [i \in 1..Len(registry.moduleversion) |->
                            decodeModuleVersion(registry.moduleversion[i])]],
                 registry.testsuite)

(* XITTestRegistry.fromXML: the list of the registries of the document, in
   document order; the first exception ends the decoding *)
RECURSIVE decodeRegistries(_, _)
decodeRegistries(regs, registries) ==
    IF registries = << >> THEN [raise |-> FALSE, value |-> regs]
    ELSE LET reg == decodeRegistry(Head(registries))
         IN  IF reg.raise THEN reg
             ELSE decodeRegistries(Append(regs, reg.value), Tail(registries))

fromXML(registries) == decodeRegistries(<< >>, registries)

---------------------------------------------------------------------------
(* Loading registries *)

(* a call that ended in sys.exit(1), and one that returned a value *)
Exit == [exit |-> TRUE, value |-> None]
Return(v) == [exit |-> FALSE, value |-> v]

(* an uncaught subprocess.CalledProcessError *)
CalledProcessError == [raise |-> "CalledProcessError"]

(* load_registry_from_file: the registries of the file; exit if there is none *)
load_registry_from_file(file) == IF Len(file) = 0 THEN Exit ELSE Return(file)

(* load_one_registry: the first registry named args.regname, exit if there
   is none; the first registry of the file if no name is given *)
load_one_registry(a, file) ==
    LET registries == load_registry_from_file(file)
    IN  IF registries.exit THEN Exit
        ELSE IF a.regname # NoName
        THEN IF \E i \in 1..Len(registries.value) : registries.value[i].name = a.regname
             THEN Return(registries.value[CHOOSE i \in 1..Len(registries.value) :
                            /\ registries.value[i].name = a.regname
                            /\ \A j \in 1..(i - 1) : registries.value[j].name # a.regname])
             ELSE Exit
        ELSE Return(registries.value[1])

(* load_registries: only the named registry if a name is given, else all *)
load_registries(a, file) ==
    IF a.regname # NoName
    THEN (IF load_one_registry(a, file).exit THEN Exit
          ELSE Return(<<load_one_registry(a, file).value>>))
    ELSE load_registry_from_file(file)

(* find_reg: the first registry of reglist named name, or None *)
find_reg(name, reglist) ==
    IF \E i \in 1..Len(reglist) : reglist[i].name = name
    THEN reglist[CHOOSE i \in 1..Len(reglist) :
                    /\ reglist[i].name = name
                    /\ \A j \in 1..(i - 1) : reglist[j].name # name]
    ELSE None

---------------------------------------------------------------------------
(* verify *)

(* Popen.returncode right after the constructor: the child was not waited
   for, so it is None *)
returncode == None

(* XITModuleVersion.compareSystemVersion for type rpm: raises unless
   p.returncode is 0 *)
compareSystemVersion(mv) ==
    IF returncode = None THEN CalledProcessError    \* None != 0
    ELSE IF returncode # 0 THEN CalledProcessError
    ELSE [rc |-> TRUE, version |-> mv.version]

(* check_installed_rpms: compareSystemVersion on every module version of
   type rpm; the first exception ends it *)
check_installed_rpms(registry) ==
    IF \E i \in 1..Len(registry.moduleversions) :
          /\ registry.moduleversions[i].type = "rpm"
          /\ compareSystemVersion(registry.moduleversions[i]) = CalledProcessError
    THEN CalledProcessError
    ELSE None

(* the loop of verify_results: one row per element of sorted(results) *)
RECURSIVE verify_rows(_, _)
verify_rows(registry, sorted_results) ==
    IF sorted_results = << >> THEN << >>
    ELSE <<verify_one_result(getTest(registry, Head(sorted_results).suite,
                                     Head(sorted_results).name),
                             Head(sorted_results))>>
         \o verify_rows(registry, Tail(sorted_results))

(* args.results: the directory of the path, and its last component as the
   text before the first ".xml" (stem) and the suffixes that follow it *)
ResultsFile(dir, stem, ext) == [dir |-> dir, stem |-> stem, ext |-> ext]

(* os.path.basename(path): the last component *)
basename(path) == [stem |-> path.stem, ext |-> path.ext]

(* name.split(".xml")[0]: the text before the first ".xml", the whole name
   if there is none *)
split_xml(name) == name.stem

(* verify_results taking the first registry of the file when no name is
   given, whatever the results file is called *)
verify_registry_first(a, file) ==
    LET registries == load_registries(a, file)
    IN  IF registries.exit THEN Exit
        ELSE Return(registries.value[1])

(* the registry verify_results works on: with a name given the one
   load_registries returned, else the first one named like the results file *)
verify_registry(a, file) ==
    LET registries == load_registries(a, file)
        regname == split_xml(basename(a.results))
    IN  IF registries.exit THEN Exit
        ELSE IF a.regname = NoName
        THEN (IF find_reg(regname, registries.value) = None THEN Exit
              ELSE Return(find_reg(regname, registries.value)))
        ELSE Return(registries.value[1])

---------------------------------------------------------------------------
(* compare *)

(* "".join of the versions of the entries of a module: the concatenation *)
RECURSIVE joinVersions(_, _)
joinVersions(moduleversions, m) ==
    IF moduleversions = << >> THEN << >>
    ELSE (IF Head(moduleversions).module = m THEN <<Head(moduleversions).version>>
          ELSE << >>) \o joinVersions(Tail(moduleversions), m)

(* modules.extend(r.module for r in reg2.moduleversions if r.name not in
   modules): reading r.name raises AttributeError on an object that has no
   attribute name *)
RECURSIVE extend_modules(_, _)
extend_modules(modules, moduleversions) ==
    IF moduleversions = << >> THEN [raise |-> FALSE, value |-> modules]
    ELSE IF "name" \notin DOMAIN Head(moduleversions)
    THEN [raise |-> TRUE, value |-> AttributeError]
    ELSE extend_modules(IF contains(modules, Head(moduleversions).name) THEN modules
                        ELSE Append(modules, Head(moduleversions).module),
                        Tail(moduleversions))

(* get_meta_comparison: a row (module, versions in reg1, versions in reg2)
   per element of modules, the modules of reg1 extended by those of reg2 *)
get_meta_comparison(r1, r2) ==
    LET modules == extend_modules([i \in 1..Len(r1.moduleversions) |->
                                      r1.moduleversions[i].module],
                                  r2.moduleversions)
    IN  IF modules.raise THEN modules
        ELSE [raise |-> FALSE,
              value |-> [i \in 1..Len(modules.value) |->
                           <<modules.value[i],
                             joinVersions(r1.moduleversions, modules.value[i]),
                             joinVersions(r2.moduleversions, modules.value[i])>>]]

(* the test loop of compare_registry: one row per test of reg1 *)
RECURSIVE compare_rows(_, _, _)
compare_rows(r1, r2, tests1) ==
    IF tests1 = << >> THEN << >>
    ELSE <<verify_one_result(getTest(r1, Head(tests1)[1], Head(tests1)[2]),
                             getTest(r2, Head(tests1)[1], Head(tests1)[2]))>>
         \o compare_rows(r1, r2, Tail(tests1))

---------------------------------------------------------------------------
(* merge *)

(* an uncaught UnboundLocalError: a loop variable read after a loop that
   never ran *)
UnboundLocalError == [raise |-> "UnboundLocalError"]

(* XITTestRegistryCLI.merge_registry: add to reg1 each test of reg2 that
   reg1 does not have *)
RECURSIVE merge_loop(_, _, _)
merge_loop(r1, r2, tests2) ==
    IF tests2 = << >> THEN r1
    ELSE LET suite == Head(tests2)[1]
             name == Head(tests2)[2]
         IN  merge_loop(IF IsNone(getTest(r1, suite, name))
                        THEN addTest(r1, getTest(r2, suite, name))
                        ELSE r1,
                        r2, Tail(tests2))

(* merge_registry without the "reg1 has no such test" condition *)
merge_registry_clobber(r1, r2) ==
    LET RECURSIVE loop(_, _)
        loop(r, tests2) ==
            IF tests2 = << >> THEN r
            ELSE loop(addTest(r, getTest(r2, Head(tests2)[1], Head(tests2)[2])),
                      Tail(tests2))
    IN  loop(r1, listTestNames(r2))

(* merge_registry that looks the test up in reg2 instead of reg1 *)
merge_registry_wrongside(r1, r2) ==
    LET RECURSIVE loop(_, _)
        loop(r, tests2) ==
            IF tests2 = << >> THEN r
            ELSE loop(IF IsNone(getTest(r2, Head(tests2)[1], Head(tests2)[2]))
                      THEN addTest(r, getTest(r2, Head(tests2)[1], Head(tests2)[2]))
                      ELSE r,
                      Tail(tests2))
    IN  loop(r1, listTestNames(r2))

(* merge_registry that re-creates every test of reg2 from its listed tuple *)
merge_registry_rebuild(r1, r2) ==
    LET RECURSIVE loop(_, _)
        loop(r, tests2) ==
            IF tests2 = << >> THEN r
            ELSE loop(addTest(r, XITTest(Head(tests2)[1], Head(tests2)[2], Head(tests2)[3])),
                      Tail(tests2))
    IN  loop(r1, listTestNames(r2))

merge_registry(r1, r2) == merge_loop(r1, r2, listTestNames(r2))

(* first loop of merge_add_registries without a name: merge into each
   registry of regs1 the first registry of regs2 of the same name *)
merge_each(list1, list2) ==
    [i \in 1..Len(list1) |->
        IF find_reg(list1[i].name, list2) = None THEN list1[i]
        ELSE merge_registry(list1[i], find_reg(list1[i].name, list2))]

(* the names the first loop appended to succeeded *)
succeeded(list1, list2) ==
    { list1[i].name : i \in { j \in 1..Len(list1) : find_reg(list1[j].name, list2) # None } }

(* second loop: append each registry of regs2 whose name is not in succeeded *)
RECURSIVE append_rest(_, _, _)
append_rest(list1, list2, done) ==
    IF list2 = << >> THEN list1
    ELSE append_rest(IF Head(list2).name \in done THEN list1
                     ELSE Append(list1, Head(list2)),
                     Tail(list2), done)

(* index of the first registry of reglist named name (find_reg found one) *)
find_index(name, reglist) ==
    CHOOSE i \in 1..Len(reglist) :
        /\ reglist[i].name = name
        /\ \A j \in 1..(i - 1) : reglist[j].name # name

(* merge_add_registries up to the final write: the outcome, the registry
   list regs1 and the value of the local r1 (None, unbound or a registry) *)
merge_add_registries(a, list1, list2) ==
    IF a.regname # NoName
    THEN LET r1 == find_reg(a.regname, list1)
             r2 == find_reg(a.regname, list2)
         IN  IF r1 = None /\ r2 = None
             THEN [outcome |-> "exit", regs |-> list1, r1 |-> None]
             ELSE IF r2 = None
             THEN [outcome |-> "write", regs |-> list1, r1 |-> r1]
             ELSE IF r1 = None
             THEN [outcome |-> "write", regs |-> Append(list1, r2), r1 |-> None]
             ELSE [outcome |-> "write",
                   regs |-> [list1 EXCEPT ![find_index(a.regname, list1)] =
                                merge_registry(r1, r2)],
                   r1 |-> merge_registry(r1, r2)]
    ELSE [outcome |-> "write",
          regs |-> append_rest(merge_each(list1, list2), list2, succeeded(list1, list2)),
          r1 |-> IF Len(list1) = 0 THEN UnboundLocalError
                 ELSE merge_each(list1, list2)[Len(list1)]]

---------------------------------------------------------------------------
(* Inputs *)

Identity == SuiteNames \X CaseNames

(* The test cases a registry document can hold for one identity: either
   status, without annotations or with a bug, a fix and a note *)
TestsOf(id) ==
    { XITTest(id[1], id[2], st) : st \in BOOLEAN }
    \cup { addInfo(addFix(addBug(XITTest(id[1], id[2], st),
                                 XITBug("bugzilla", 1)),
                          XITFix("git", 1)),
                   XITInfo("text", 1)) : st \in BOOLEAN }

PlainTestsOf(id) == { XITTest(id[1], id[2], st) : st \in BOOLEAN }

IdentitySets == { S \in SUBSET Identity : Cardinality(S) <= MaxTests }

(* the registry fromXML builds from the test cases f[id], id in DOMAIN f *)
RECURSIVE registryOf(_, _, _)
registryOf(reg, f, ids) ==
    IF ids = {} THEN reg
    ELSE LET id == CHOOSE x \in ids : TRUE
         IN  registryOf(addTest(reg, f[id]), f, ids \ {id})

Registries(name) ==
    UNION { { registryOf(XITTestRegistry(name, << >>), f, S) :
                f \in { g \in [S -> UNION { TestsOf(id) : id \in S }] :
                           \A id \in S : g[id] \in TestsOf(id) } } :
            S \in IdentitySets }

(* the live results a results file can hold for one identity: a test case
   without failure children, or with one or two *)
ResultsOf(id) == { JUnitTestResult(id[1], id[2], n) : n \in 0..2 }

(* the identities a registry holds *)
identities(reg) ==
    { id \in Identity : id[1] \in DOMAIN reg.tests /\ id[2] \in DOMAIN reg.tests[id[1]] }

---------------------------------------------------------------------------
(* Merging one registry into another *)

InitMerge ==
    /\ pc = "start"
    /\ reg1 \in Registries(1)
    /\ reg2 \in Registries(1)
    /\ old1 = reg1
    /\ regs1 = << >>
    /\ regs2 = << >>
    /\ results = << >>
    /\ args = None
    /\ rows = << >>
    /\ meta = << >>
    /\ outfile = NotWritten
    /\ expected = None
    /\ actual = None
    /\ document = << >>
    /\ tcase = None
    /\ compared = << >>
    /\ failed_regs = << >>
    /\ regfile = << >>
    /\ procs = << >>

(* merge_registry(A, B) *)
MergeRegistry ==
    /\ pc = "start"
    /\ reg1' = merge_registry(reg1, reg2)
    /\ pc' = "merged"
    /\ UNCHANGED <<reg2, old1, regs1, regs2, results, args, rows, meta, outfile, expected, actual,
                 codecVars, compareVars, editVars>>

(* merge_registry(merge(A, B), B): old1 is the registry before this call *)
MergeAgain ==
    /\ pc = "merged"
    /\ old1' = reg1
    /\ reg1' = merge_registry(reg1, reg2)
    /\ pc' = "merged2"
    /\ UNCHANGED <<reg2, regs1, regs2, results, args, rows, meta, outfile, expected, actual,
                 codecVars, compareVars, editVars>>

(* merge_registry(A, A) *)
MergeSelf ==
    /\ pc = "start"
    /\ reg1' = merge_registry(reg1, reg1)
    /\ pc' = "selfmerged"
    /\ UNCHANGED <<reg2, old1, regs1, regs2, results, args, rows, meta, outfile, expected, actual,
                 codecVars, compareVars, editVars>>

NextMerge == MergeRegistry \/ MergeAgain \/ MergeSelf

SpecMerge == InitMerge /\ [][NextMerge]_vars

(* C1: merge is non-destructive.  After merge_registry(A, B) every identity
   that A held before the merge has in A the same entry (status, bugs, fixes,
   notes) as before, whatever B holds for it. *)
MergeNonDestructive ==
    pc = "merged" =>
        \A id \in identities(old1) :
            getTest(reg1, id[1], id[2]) = getTest(old1, id[1], id[2])

(* a merge where B holds a different entry for an identity of A *)
MergeConflictWitness ==
    /\ pc = "merged"
    /\ \E id \in identities(old1) \cap identities(reg2) :
          /\ getTest(reg2, id[1], id[2]).status # getTest(old1, id[1], id[2]).status
          /\ getTest(reg2, id[1], id[2]).bugs # getTest(old1, id[1], id[2]).bugs

(* C2: after merge_registry(A, B) the identities of A are the union of those
   of A and B before, and every identity that only B held has B's entry. *)
MergeAdoptsNew ==
    pc = "merged" =>
        /\ identities(reg1) = identities(old1) \cup identities(reg2)
        /\ \A id \in identities(reg2) \ identities(old1) :
              getTest(reg1, id[1], id[2]) = getTest(reg2, id[1], id[2])

(* a merge that adopts an annotated test of B into a suite A already has,
   while A holds a test B lacks *)
MergeAdoptWitness ==
    /\ pc = "merged"
    /\ identities(old1) \ identities(reg2) # {}
    /\ \E id \in identities(reg2) \ identities(old1) :
          /\ id[1] \in DOMAIN old1.tests
          /\ getTest(reg1, id[1], id[2]).bugs # << >>

(* C3: merge is idempotent.  merge_registry(A, A) leaves A as it was, and
   merging B a second time into merge(A, B) leaves merge(A, B) as it was. *)
MergeIdempotent ==
    pc \in {"selfmerged", "merged2"} => reg1 = old1

(* a second merge of B into merge(A, B), where the first merge adopted a
   test of B and kept an entry of A that differs from B's *)
MergeTwiceWitness ==
    /\ pc = "merged2"
    /\ identities(reg1) \ identities(reg2) # {}
    /\ \E id \in identities(reg2) :
          getTest(reg1, id[1], id[2]) # getTest(reg2, id[1], id[2])
    /\ \E id \in identities(reg2) :
          /\ getTest(reg1, id[1], id[2]) = getTest(reg2, id[1], id[2])
          /\ getTest(reg1, id[1], id[2]).fixes # << >>

---------------------------------------------------------------------------
(* Classifying one expected/actual pair *)

(* the callers pass the registry entry and the live result (verify) or the
   second registry's entry (compare) of one identity; either may be None *)
InitClassify ==
    /\ pc = "start"
    /\ \E id \in Identity :
          /\ expected \in TestsOf(id) \cup {None}
          /\ actual \in ResultsOf(id) \cup TestsOf(id) \cup {None}
    /\ reg1 = None
    /\ reg2 = None
    /\ old1 = None
    /\ regs1 = << >>
    /\ regs2 = << >>
    /\ results = << >>
    /\ args = None
    /\ rows = << >>
    /\ meta = << >>
    /\ outfile = NotWritten
    /\ document = << >>
    /\ tcase = None
    /\ compared = << >>
    /\ failed_regs = << >>
    /\ regfile = << >>
    /\ procs = << >>

(* verify_one_result(test, result) *)
Classify ==
    /\ pc = "start"
    /\ rows' = <<verify_one_result(expected, actual)>>
    /\ pc' = "classified"
    /\ UNCHANGED <<reg1, reg2, old1, regs1, regs2, results, args, meta, outfile, expected, actual,
                 codecVars, compareVars, editVars>>

NextClassify == Classify

SpecClassify == InitClassify /\ [][NextClassify]_vars

(* C4: for every (expected, actual) pair with at least one side present,
   verify_one_result raises nothing and returns the code of the table:
   "++" for equal statuses true, "--" for equal statuses false, "XX" for
   different statuses (green when the actual result passed, red when it
   failed), "??" in blue when exactly one side is absent. *)
ClassificationTable ==
    (pc = "classified" /\ ~(expected = None /\ actual = None)) =>
        /\ rows[1] # AttributeError
        /\ (expected # None /\ actual # None /\ expected.status /\ actual.status)
              => rows[1].values[1] = "++"
        /\ (expected # None /\ actual # None /\ ~expected.status /\ ~actual.status)
              => rows[1].values[1] = "--"
        /\ (expected # None /\ actual # None /\ expected.status /\ ~actual.status)
              => (rows[1].values[1] = "XX" /\ rows[1].color = RED)
        /\ (expected # None /\ actual # None /\ ~expected.status /\ actual.status)
              => (rows[1].values[1] = "XX" /\ rows[1].color = GREEN)
        /\ ((expected = None) # (actual = None))
              => (rows[1].values[1] = "??" /\ rows[1].color = BLUE)

(* the regression of the spec's scenario: expected true, actual false *)
ClassifyRegressionWitness ==
    /\ pc = "classified"
    /\ expected # None /\ actual # None
    /\ rows[1].values = <<"XX", expected.suite, expected.name, "false", "true">>
    /\ rows[1].color = RED

---------------------------------------------------------------------------
(* verify and compare *)

(* the module versions a registry document can record *)
ModuleVersionLists ==
    { << >>,
      <<XITModuleVersion(1, 1, "git", NoRepo)>>,
      <<XITModuleVersion(1, 2, "rpm", NoRepo)>>,
      <<XITModuleVersion(2, 1, "git", NoRepo)>>,
      <<XITModuleVersion(1, 1, "git", NoRepo), XITModuleVersion(1, 2, "rpm", NoRepo)>> }

(* registries without annotations, with module versions *)
PlainRegistries(name) ==
    UNION { { [registryOf(XITTestRegistry(name, << >>), f, S)
                 EXCEPT !.moduleversions = mods] :
                f \in { g \in [S -> UNION { PlainTestsOf(id) : id \in S }] :
                           \A id \in S : g[id] \in PlainTestsOf(id) },
                mods \in ModuleVersionLists } :
            S \in IdentitySets }

(* the lists JUnitTestResult.fromXML can return: in document order, the same
   test case possibly more than once *)
RECURSIVE ResultLists(_)
ResultLists(n) ==
    IF n = 0 THEN { << >> }
    ELSE ResultLists(n - 1)
         \cup { Append(l, r) : l \in { x \in ResultLists(n - 1) : Len(x) = n - 1 },
                               r \in UNION { ResultsOf(id) : id \in Identity } }

(* xit-bug-registry -f file [-r name] verify [--check-all] 1.xml, on a file
   with one registry *)
InitVerify ==
    /\ pc = "start"
    /\ \E name \in RegNames : \E r \in PlainRegistries(name) : regs1 = <<r>>
    /\ results \in ResultLists(MaxResults)
    /\ \E check_all \in BOOLEAN : \E regname \in {NoName, 1} :
          args = [cmd |-> "verify", regname |-> regname, check_all |-> check_all,
                  results |-> ResultsFile(<< >>, 1, <<".xml">>)]
    /\ reg1 = None
    /\ reg2 = None
    /\ old1 = None
    /\ regs2 = << >>
    /\ rows = << >>
    /\ meta = << >>
    /\ outfile = NotWritten
    /\ expected = None
    /\ actual = None
    /\ document = << >>
    /\ tcase = None
    /\ compared = << >>
    /\ failed_regs = << >>
    /\ regfile = << >>
    /\ procs = << >>

(* compare_registry(reg1, reg2, printer) on two registries of one name *)
InitCompare ==
    /\ pc = "start"
    /\ reg1 \in PlainRegistries(1)
    /\ reg2 \in PlainRegistries(1)
    /\ args = [cmd |-> "compare", regname |-> NoName, check_all |-> FALSE,
               results |-> ResultsFile(<< >>, 1, <<".xml">>)]
    /\ old1 = None
    /\ regs1 = << >>
    /\ regs2 = << >>
    /\ results = << >>
    /\ rows = << >>
    /\ meta = << >>
    /\ outfile = NotWritten
    /\ expected = None
    /\ actual = None
    /\ document = << >>
    /\ tcase = None
    /\ compared = << >>
    /\ failed_regs = << >>
    /\ regfile = << >>
    /\ procs = << >>

(* verify_results: pick the registry (exit if none), run the module check
   if asked (an exception ends the run), then print one row per live result *)
Verify ==
    /\ pc = "start"
    /\ args.cmd = "verify"
    /\ LET registry == verify_registry(args, regs1)
       IN  IF registry.exit
           THEN /\ pc' = "exit"
                /\ UNCHANGED <<reg1, rows>>
           ELSE IF args.check_all
                   /\ check_installed_rpms(registry.value) = CalledProcessError
           THEN /\ pc' = "raise"
                /\ reg1' = registry.value
                /\ UNCHANGED rows
           ELSE /\ pc' = "done"
                /\ reg1' = registry.value
                /\ rows' = verify_rows(registry.value, sortedCases(results))
    /\ UNCHANGED <<reg2, old1, regs1, regs2, results, args, meta, outfile, expected, actual,
                 codecVars, compareVars, editVars>>

(* compare_registry: the module-version table (printed if not empty; an
   exception of get_meta_comparison ends the run), then one row per test of
   reg1 *)
Compare ==
    /\ pc = "start"
    /\ args.cmd = "compare"
    /\ LET values == get_meta_comparison(reg1, reg2)
       IN  IF values.raise
           THEN /\ pc' = "raise"
                /\ UNCHANGED <<meta, rows>>
           ELSE /\ pc' = "done"
                /\ meta' = [i \in 1..Len(values.value) |->
                               [color |-> IF values.value[i][2] # values.value[i][3]
                                          THEN RED ELSE DEFAULT,
                                values |-> values.value[i]]]
                /\ rows' = compare_rows(reg1, reg2, sortedTuples(listTestNames(reg1)))
    /\ UNCHANGED <<reg1, reg2, old1, regs1, regs2, results, args, outfile, expected, actual,
                 codecVars, compareVars, editVars>>

InitReport == InitVerify \/ InitCompare

NextReport == Verify \/ Compare

SpecReport == InitReport /\ [][NextReport]_vars

(* the (suite, case) of a printed row, and the order on such pairs *)
rowId(row) == <<row.values[2], row.values[3]>>
idLess(a, b) == a[1] < b[1] \/ (a[1] = b[1] /\ a[2] < b[2])

(* how many elements of a list of rows or results have the identity id *)
countRows(id) == Cardinality({ i \in 1..Len(rows) : rowId(rows[i]) = id })
countResults(id) ==
    Cardinality({ i \in 1..Len(results) : <<results[i].suite, results[i].name>> = id })

(* C5: verify produces exactly one classified row for every live result: a
   result whose identity has no registry entry gets a "??" row with an empty
   expected status, and no row is for an identity that is not among the live
   results.  Stated of every verify run that selected a registry. *)
VerifyRowPerResult ==
    (args.cmd = "verify" /\ pc \in {"done", "raise"}) =>
        /\ Len(rows) = Len(results)
        /\ \A id \in Identity : countRows(id) = countResults(id)
        /\ \A i \in 1..Len(rows) :
              getTest(reg1, rowId(rows[i])[1], rowId(rows[i])[2]) = None
                  => (rows[i].values[1] = "??" /\ rows[i].values[5] = "")

(* C6 as stated: the rows of verify and of compare are in strictly ascending
   (suite, case) order, also when the live results list a test case twice. *)
RowsStrictlyAscending ==
    pc \in {"done", "raise", "exit"} =>
        \A i \in 1..(Len(rows) - 1) : idLess(rowId(rows[i]), rowId(rows[i + 1]))

(* C6 as amended: the rows of verify and of compare are in ascending (suite,
   case) order for any ordering of the inputs; two consecutive rows carry the
   same (suite, case) only in the output of verify, and only when the live
   results list that test case more than once. *)
RowsAscending ==
    pc \in {"done", "raise", "exit"} =>
        \A i \in 1..(Len(rows) - 1) :
            \/ idLess(rowId(rows[i]), rowId(rows[i + 1]))
            \/ /\ rowId(rows[i]) = rowId(rows[i + 1])
               /\ args.cmd = "verify"
               /\ countResults(rowId(rows[i])) > 1

(* a verify run whose results file lists two tests in descending order *)
RowsSortedWitness ==
    /\ pc = "done"
    /\ args.cmd = "verify"
    /\ Len(results) = 2
    /\ idLess(<<results[2].suite, results[2].name>>, <<results[1].suite, results[1].name>>)
    /\ Len(rows) = 2

(* C7: compare(A, B) outputs one classified row for every identity of the
   union of the test maps of A and B, those only in B included. *)
CompareCoversUnion ==
    (args.cmd = "compare" /\ pc = "done") =>
        /\ { rowId(rows[i]) : i \in 1..Len(rows) } = identities(reg1) \cup identities(reg2)
        /\ Len(rows) = Cardinality(identities(reg1) \cup identities(reg2))

(* the module names a registry records *)
moduleNames(reg) == { reg.moduleversions[i].module : i \in 1..Len(reg.moduleversions) }

(* C8: the module-version diff of compare(A, B) has one row per module name
   of the union of A's and B's module names, pairing A's version with B's
   (empty when a side lacks the module), flagged iff the two differ; also
   when B records module versions. *)
CompareModuleDiff ==
    (args.cmd = "compare" /\ pc \in {"done", "raise"}) =>
        /\ Len(meta) = Cardinality(moduleNames(reg1) \cup moduleNames(reg2))
        /\ \A m \in moduleNames(reg1) \cup moduleNames(reg2) :
              \E i \in 1..Len(meta) :
                  /\ meta[i].values = <<m, joinVersions(reg1.moduleversions, m),
                                           joinVersions(reg2.moduleversions, m)>>
                  /\ (meta[i].color = RED) <=>
                        (joinVersions(reg1.moduleversions, m)
                            # joinVersions(reg2.moduleversions, m))

---------------------------------------------------------------------------
(* Merging two documents *)

(* the registries a document can hold under one name *)
DocRegistries(name) ==
    { XITTestRegistry(name, << >>),
      XITTestRegistry(name, <<XITTest(1, 1, TRUE)>>),
      XITTestRegistry(name, <<addBug(XITTest(1, 1, FALSE), XITBug("bugzilla", 1)),
                              XITTest(1, 2, TRUE)>>) }

(* the documents fromXML can decode: up to MaxRegs registries, each name
   at most once, in any order *)
RECURSIVE Documents(_)
Documents(n) ==
    IF n = 0 THEN { << >> }
    ELSE Documents(n - 1)
         \cup { Append(d, r) :
                  d \in { x \in Documents(n - 1) : Len(x) = n - 1 },
                  r \in UNION { DocRegistries(name) : name \in RegNames } }

UniqueNames(d) == \A i, j \in 1..Len(d) : d[i].name = d[j].name => i = j

(* xit-bug-registry -f file [-r name] merge reg1.xml reg2.xml; old1 keeps
   the registries of the first document as decoded *)
InitDocMerge ==
    /\ pc = "start"
    /\ regs1 \in { d \in Documents(MaxRegs) : UniqueNames(d) }
    /\ regs2 \in { d \in Documents(MaxRegs) : UniqueNames(d) }
    /\ old1 = regs1
    /\ \E regname \in {NoName} \cup RegNames :
          args = [cmd |-> "merge", regname |-> regname, check_all |-> FALSE,
                  results |-> ResultsFile(<< >>, 1, <<".xml">>)]
    /\ reg1 = None
    /\ reg2 = None
    /\ results = << >>
    /\ rows = << >>
    /\ meta = << >>
    /\ outfile = NotWritten
    /\ expected = None
    /\ actual = None
    /\ document = << >>
    /\ tcase = None
    /\ compared = << >>
    /\ failed_regs = << >>
    /\ regfile = << >>
    /\ procs = << >>

(* merge_add_registries: merge or adopt, then r1.toXML(regs1) is written
   with registry_from_string; r1 being None or unbound raises before the
   write *)
MergeAddRegistries ==
    /\ pc = "start"
    /\ args.cmd = "merge"
    /\ LET m == merge_add_registries(args, regs1, regs2)
       IN  IF m.outcome = "exit"
           THEN /\ pc' = "exit"
                /\ UNCHANGED <<regs1, outfile>>
           ELSE IF m.r1 = None \/ m.r1 = UnboundLocalError
           THEN /\ pc' = "raise"
                /\ regs1' = m.regs
                /\ UNCHANGED outfile
           ELSE /\ pc' = "done"
                /\ regs1' = m.regs
                /\ outfile' = [written |-> TRUE, doc |-> toXML(m.r1, m.regs)]
    /\ UNCHANGED <<reg1, reg2, old1, regs2, results, args, rows, meta, expected, actual,
                 codecVars, compareVars, editVars>>

NextDocMerge == MergeAddRegistries

SpecDocMerge == InitDocMerge /\ [][NextDocMerge]_vars

(* the names of the registries of a list, and of a written document *)
names(list) == { list[i].name : i \in 1..Len(list) }

(* the registry elements of a written document with a given name *)
written(name) == { i \in 1..Len(outfile.doc) : outfile.doc[i].name = name }

(* C9: document-level merge with a target name.  If the name is in both
   documents that pair is merged; if it is only in B the registry of B is
   adopted and written next to A's registries; if it is only in A the
   written result is A's registries unchanged.  In each of the three cases
   the merge completes and writes the result. *)
NamedMergeWrites ==
    (args.cmd = "merge" /\ args.regname # NoName /\ pc # "start"
       /\ args.regname \in names(old1) \cup names(regs2)) =>
        /\ pc = "done"
        /\ outfile.written
        /\ outfile.doc =
              IF args.regname \notin names(regs2) THEN toXML(None, old1)
              ELSE IF args.regname \notin names(old1)
              THEN toXML(None, Append(old1, find_reg(args.regname, regs2)))
              ELSE toXML(None, [old1 EXCEPT ![find_index(args.regname, old1)] =
                                  merge_registry(find_reg(args.regname, old1),
                                                 find_reg(args.regname, regs2))])

(* C10: document-level merge without a target name.  Every registry whose
   name is in both documents is merged pairwise, every registry only in B is
   adopted exactly once, every registry only in A is left untouched, and the
   registry names of the result are the union of those of A and B. *)
UnnamedMergeUnion ==
    (args.cmd = "merge" /\ args.regname = NoName /\ pc # "start") =>
        /\ pc = "done"
        /\ outfile.written
        /\ { outfile.doc[i].name : i \in 1..Len(outfile.doc) } = names(old1) \cup names(regs2)
        /\ \A n \in names(old1) \cup names(regs2) :
              /\ Cardinality(written(n)) = 1
              /\ \A i \in written(n) :
                    outfile.doc[i] =
                        IF n \notin names(regs2) THEN xmlRegistry(find_reg(n, old1))
                        ELSE IF n \notin names(old1) THEN xmlRegistry(find_reg(n, regs2))
                        ELSE xmlRegistry(merge_registry(find_reg(n, old1),
                                                        find_reg(n, regs2)))

---------------------------------------------------------------------------
(* Comparing two documents *)

(* regs.sort(): by XITTestRegistry.__cmp__, which orders by name; stable *)
sortRegistries(reglist) ==
    sortedKeyed([i \in 1..Len(reglist) |->
                    [key |-> <<reglist[i].name>>, item |-> reglist[i]]])

(* compare_registry(reg1, reg2, printer): the two tables it hands to the
   printer, or the exception of get_meta_comparison *)
compare_registry(r1, r2) ==
    LET values == get_meta_comparison(r1, r2)
    IN  IF values.raise
        THEN [raise |-> TRUE, meta |-> << >>, rows |-> << >>]
        ELSE [raise |-> FALSE,
              meta |-> [i \in 1..Len(values.value) |->
                           [color |-> IF values.value[i][2] # values.value[i][3]
                                      THEN RED ELSE DEFAULT,
                            values |-> values.value[i]]],
              rows |-> compare_rows(r1, r2, sortedTuples(listTestNames(r1)))]

(* first loop of compare_registries without a name: each registry of regs1
   is compared with the first registry of regs2 of its name, or its name
   goes to failed_regs; an exception of compare_registry ends the loop.
   st holds the pairs handed to compare_registry, failed_regs, done_regs and
   the printed tables *)
RECURSIVE compare_each(_, _, _)
compare_each(list1, list2, st) ==
    IF list1 = << >> THEN st
    ELSE LET r1 == Head(list1)
             r2 == find_reg(r1.name, list2)
         IN  IF r2 = None
             THEN compare_each(Tail(list1), list2,
                               [st EXCEPT !.failed_regs = Append(@, r1.name)])
             ELSE IF compare_registry(r1, r2).raise
             THEN [st EXCEPT !.compared = Append(@, <<r1, r2>>), !.raise = TRUE]
             ELSE compare_each(Tail(list1), list2,
                               [st EXCEPT !.compared = Append(@, <<r1, r2>>),
                                          !.done_regs = Append(@, r1.name),
                                          !.meta = @ \o compare_registry(r1, r2).meta,
                                          !.rows = @ \o compare_registry(r1, r2).rows])

(* second loop: the name of each registry of regs2 that is not in done_regs
   goes to failed_regs *)
RECURSIVE fail_rest(_, _, _)
fail_rest(failed, list2, done_regs) ==
    IF list2 = << >> THEN failed
    ELSE fail_rest(IF contains(done_regs, Head(list2).name) THEN failed
                   ELSE Append(failed, Head(list2).name),
                   Tail(list2), done_regs)

(* compare_registries: outcome, the pairs handed to compare_registry, the
   names logged as failed and the printed tables *)
compare_registries(a, list1, list2) ==
    LET sorted1 == sortRegistries(list1)
        sorted2 == sortRegistries(list2)
        st0 == [raise |-> FALSE, compared |-> << >>, failed_regs |-> << >>,
                done_regs |-> << >>, meta |-> << >>, rows |-> << >>]
    IN  IF a.regname # NoName
        THEN IF find_reg(a.regname, sorted1) = None \/ find_reg(a.regname, sorted2) = None
             THEN [outcome |-> "exit", st |-> st0]
             ELSE LET r1 == find_reg(a.regname, sorted1)
                      r2 == find_reg(a.regname, sorted2)
                      c == compare_registry(r1, r2)
                  IN  [outcome |-> IF c.raise THEN "raise" ELSE "done",
                       st |-> [st0 EXCEPT !.compared = <<<<r1, r2>>>>,
                                          !.raise = c.raise,
                                          !.meta = c.meta, !.rows = c.rows]]
        ELSE LET st == compare_each(sorted1, sorted2, st0)
             IN  IF st.raise THEN [outcome |-> "raise", st |-> st]
                 ELSE [outcome |-> "done",
                       st |-> [st EXCEPT !.failed_regs =
                                  fail_rest(@, sorted2, st.done_regs)]]

(* the registries a document to compare can hold under one name: without
   and with a recorded module version *)
CompareRegistries(name) ==
    { XITTestRegistry(name, <<XITTest(1, 1, TRUE)>>),
      [XITTestRegistry(name, <<XITTest(1, 1, FALSE)>>)
          EXCEPT !.moduleversions = <<XITModuleVersion(1, 1, "git", NoRepo)>>] }

(* the registry lists fromXML can return: up to MaxRegs registries in any
   order, a name possibly more than once *)
RECURSIVE CompareDocuments(_)
CompareDocuments(n) ==
    IF n = 0 THEN { << >> }
    ELSE CompareDocuments(n - 1)
         \cup { Append(d, r) :
                  d \in { x \in CompareDocuments(n - 1) : Len(x) = n - 1 },
                  r \in UNION { CompareRegistries(name) : name \in RegNames } }

(* xit-bug-registry [-r name] compare reg1.xml reg2.xml *)
InitCompareDocs ==
    /\ pc = "start"
    /\ regs1 \in CompareDocuments(MaxRegs)
    /\ regs2 \in CompareDocuments(MaxRegs)
    /\ \E regname \in {NoName} \cup RegNames :
          args = [cmd |-> "compare", regname |-> regname, check_all |-> FALSE,
                  results |-> ResultsFile(<< >>, 1, <<".xml">>)]
    /\ reg1 = None
    /\ reg2 = None
    /\ old1 = None
    /\ results = << >>
    /\ rows = << >>
    /\ meta = << >>
    /\ outfile = NotWritten
    /\ expected = None
    /\ actual = None
    /\ document = << >>
    /\ tcase = None
    /\ compared = << >>
    /\ failed_regs = << >>
    /\ regfile = << >>
    /\ procs = << >>

(* compare_registries(args) *)
CompareRegistriesCmd ==
    /\ pc = "start"
    /\ args.cmd = "compare"
    /\ LET c == compare_registries(args, regs1, regs2)
       IN  /\ pc' = c.outcome
           /\ compared' = c.st.compared
           /\ failed_regs' = c.st.failed_regs
           /\ meta' = c.st.meta
           /\ rows' = c.st.rows
    /\ UNCHANGED <<reg1, reg2, old1, regs1, regs2, results, args, outfile, expected,
                   actual, codecVars, editVars>>

NextCompareDocs == CompareRegistriesCmd

SpecCompareDocs == InitCompareDocs /\ [][NextCompareDocs]_vars

(* the names of the registries whose comparison was printed, and of those
   logged as failed *)
comparedNames ==
    { compared[i][1].name : i \in { j \in 1..Len(compared) :
          ~compare_registry(compared[j][1], compared[j][2]).raise } }
failedNames == { failed_regs[i] : i \in 1..Len(failed_regs) }

(* C11: compare without a target name.  The run completes, also when some
   names are unmatched, and every registry name of either document is
   compared when it is in both documents and reported as unmatched when it
   is in one only: never both, never neither. *)
UnnamedCompareCoversNames ==
    (args.cmd = "compare" /\ args.regname = NoName /\ pc # "start") =>
        /\ pc = "done"
        /\ comparedNames = names(regs1) \cap names(regs2)
        /\ failedNames = (names(regs1) \cup names(regs2))
                            \ (names(regs1) \cap names(regs2))

(* C12: compare with a target name.  If the name is absent from either
   document the run exits with an error and nothing is compared; otherwise
   exactly one pair is compared, a registry of that name from each
   document. *)
NamedCompareOnePair ==
    (args.cmd = "compare" /\ args.regname # NoName /\ pc # "start") =>
        IF args.regname \notin names(regs1) \/ args.regname \notin names(regs2)
        THEN pc = "exit" /\ compared = << >> /\ rows = << >> /\ meta = << >>
        ELSE /\ pc = "done"
             /\ Len(compared) = 1
             /\ comparedNames = {args.regname}
             /\ contains(regs1, compared[1][1])
             /\ contains(regs2, compared[1][2])

---------------------------------------------------------------------------
(* Annotating one test case *)

(* the bugs, fixes and notes the callers construct *)
Bugs == { XITBug("bugzilla", 1), XITBug("bugzilla", 2), XITBug("other", 1) }
Fixes == { XITFix("git", 1), XITFix("rpm", 1) }
Infos == { XITInfo("text", 1), XITInfo("url", 1) }

(* a new XITTest: the three lists are empty *)
InitTestCase ==
    /\ pc = "start"
    /\ tcase \in { XITTest(1, 1, st) : st \in BOOLEAN }
    /\ old1 = tcase
    /\ args = [cmd |-> "new", arg |-> None]
    /\ reg1 = None
    /\ reg2 = None
    /\ regs1 = << >>
    /\ regs2 = << >>
    /\ results = << >>
    /\ rows = << >>
    /\ meta = << >>
    /\ outfile = NotWritten
    /\ expected = None
    /\ actual = None
    /\ document = << >>
    /\ compared = << >>
    /\ failed_regs = << >>
    /\ regfile = << >>
    /\ procs = << >>

(* one call on the test case: args records the call, old1 the test case
   before it *)
Call(cmd, arg, after) ==
    /\ pc \in {"start", "called"}
    /\ pc' = "called"
    /\ args' = [cmd |-> cmd, arg |-> arg]
    /\ old1' = tcase
    /\ tcase' = after
    /\ UNCHANGED <<reg1, reg2, regs1, regs2, results, rows, meta, outfile, expected,
                   actual, document, compareVars, editVars>>

AddBug == \E bug \in Bugs : Call("addBug", bug, addBug(tcase, bug))
RemoveBug == \E bug \in Bugs : Call("removeBug", bug, removeBug(tcase, bug))
AddFix == \E fix \in Fixes : Call("addFix", fix, addFix(tcase, fix))
RemoveFix == \E fix \in Fixes : Call("removeFix", fix, removeFix(tcase, fix))
AddInfo == \E info \in Infos : Call("addInfo", info, addInfo(tcase, info))
RemoveInfo == \E info \in Infos : Call("removeInfo", info, removeInfo(tcase, info))

NextTestCase == AddBug \/ RemoveBug \/ AddFix \/ RemoveFix \/ AddInfo \/ RemoveInfo

SpecTestCase == InitTestCase /\ [][NextTestCase]_vars

(* no two entries of a list have the same (type, text) *)
distinctKeys(keys) == \A i, j \in 1..Len(keys) : keys[i] = keys[j] => i = j

(* the list the last call worked on, before the call *)
listBefore ==
    CASE args.cmd \in {"addBug", "removeBug"} -> old1.bugs
      [] args.cmd \in {"addFix", "removeFix"} -> old1.fixes
      [] args.cmd \in {"addInfo", "removeInfo"} -> old1.info

(* C13: after any sequence of add and remove calls none of the three lists
   of a test case holds two entries with the same key, (type, url) for bugs
   and (type, text) for fixes and notes; adding an entry equal to one that
   is present, and removing one that is not present, leaves the test case
   as it was. *)
NoDuplicateEntries ==
    pc = "called" =>
        /\ distinctKeys([i \in 1..Len(tcase.bugs) |->
                            <<tcase.bugs[i].type, tcase.bugs[i].url>>])
        /\ distinctKeys([i \in 1..Len(tcase.fixes) |->
                            <<tcase.fixes[i].type, tcase.fixes[i].text>>])
        /\ distinctKeys([i \in 1..Len(tcase.info) |->
                            <<tcase.info[i].type, tcase.info[i].text>>])
        /\ (args.cmd \in {"addBug", "addFix", "addInfo"}
              /\ contains(listBefore, args.arg)) => tcase = old1
        /\ (args.cmd \in {"removeBug", "removeFix", "removeInfo"}
              /\ ~contains(listBefore, args.arg)) => tcase = old1

(* a bug added a second time to a test case that holds it and another bug *)
AddEqualBugWitness ==
    /\ pc = "called"
    /\ args.cmd = "addBug"
    /\ contains(old1.bugs, args.arg)
    /\ Len(tcase.bugs) = 2

---------------------------------------------------------------------------
(* Decoding and encoding a registry document *)

(* names of the registries of a document *)
DocNames == {1, 2}

(* a bug, fix or testinfo element without a type attribute *)
untypedElement(text) == [attrib |-> [k \in {} |-> ""], text |-> text]

(* the testcase elements a document can hold for a case name that decode:
   success texts of either status; bugs, notes and fixes in any order, with
   and without a type; a bug of a type no class knows *)
DecodableTestcases(name) ==
    { [name |-> name, success |-> "true", bug |-> << >>, testinfo |-> << >>,
       fix |-> << >>],
      [name |-> name, success |-> "0",
       bug |-> <<typedElement("other", 2), untypedElement(1),
                 typedElement("bugzilla", 1)>>,
       testinfo |-> << >>, fix |-> << >>],
      [name |-> name, success |-> "True", bug |-> << >>,
       testinfo |-> <<typedElement("url", 1), untypedElement(2),
                      typedElement("text", 1)>>,
       fix |-> <<typedElement("rpm", 1), typedElement("git", 1)>>] }

(* those that end the decoding: a fix without a type, a success text that
   is no boolean token, a note and a fix of a type no class knows *)
FailingTestcases(name) ==
    { [name |-> name, success |-> "false", bug |-> << >>, testinfo |-> << >>,
       fix |-> <<untypedElement(1)>>],
      [name |-> name, success |-> "yes", bug |-> << >>, testinfo |-> << >>,
       fix |-> << >>],
      [name |-> name, success |-> "true", bug |-> << >>,
       testinfo |-> <<typedElement("other", 1)>>, fix |-> << >>],
      [name |-> name, success |-> "true", bug |-> << >>, testinfo |-> << >>,
       fix |-> <<typedElement("other", 1)>>] }

(* the testcase elements of the model: the failing ones under the first
   case name only *)
TestcaseElements(name) ==
    DecodableTestcases(name) \cup (IF name = 1 THEN FailingTestcases(name) ELSE {})

(* the moduleversion elements of the meta element of a document's first
   registry: none; one without type and repo; two with a type, one of them
   with a repo *)
ModuleVersionElements ==
    { << >>,
      <<[attrib |-> [k \in {"name"} |-> 1], text |-> 1]>>,
      <<[attrib |-> [k \in {"name", "type", "repo"} |->
                        CASE k = "name" -> 2 [] k = "type" -> "rpm" [] k = "repo" -> 1],
         text |-> 1],
        [attrib |-> [k \in {"name", "type"} |->
                        CASE k = "name" -> 1 [] k = "type" -> "git"],
         text |-> 2]>> }

(* one testcase element with the names of the registry and the suite it is
   listed under *)
DocEntries ==
    { [registry |-> r, suite |-> su, testcase |-> t] :
        r \in DocNames, su \in SuiteNames,
        t \in UNION { TestcaseElements(name) : name \in CaseNames } }

RECURSIVE EntryLists(_)
EntryLists(n) ==
    IF n = 0 THEN { << >> }
    ELSE EntryLists(n - 1)
         \cup { Append(l, e) : l \in { x \in EntryLists(n - 1) : Len(x) = n - 1 },
                               e \in DocEntries }

(* the document that lists the entries in this order: consecutive entries
   of one registry share a registry element, and within it consecutive
   entries of one suite share a testsuite element *)
RECURSIVE documentOf(_, _)
documentOf(doc, entries) ==
    IF entries = << >> THEN doc
    ELSE LET e == Head(entries)
             n == Len(doc)
             suiteElem == [name |-> e.suite, testcase |-> <<e.testcase>>]
         IN  IF n > 0 /\ doc[n].name = e.registry
             THEN LET m == Len(doc[n].testsuite)
                  IN  IF doc[n].testsuite[m].name = e.suite
                      THEN documentOf([doc EXCEPT ![n].testsuite[m].testcase =
                                          Append(@, e.testcase)], Tail(entries))
                      ELSE documentOf([doc EXCEPT ![n].testsuite =
                                          Append(@, suiteElem)], Tail(entries))
             ELSE documentOf(Append(doc, [name |-> e.registry,
                                          moduleversion |-> << >>,
                                          testsuite |-> <<suiteElem>>]),
                             Tail(entries))

(* the registry documents of the model: up to n testcase elements *)
RegistryDocuments(n) ==
    { << >> } \cup
    { [documentOf(<< >>, l) EXCEPT ![1].moduleversion = mods] :
        l \in EntryLists(n) \ { << >> }, mods \in ModuleVersionElements }

InitCodec ==
    /\ pc = "start"
    /\ document \in RegistryDocuments(MaxTests)
    /\ regs1 = << >>
    /\ outfile = NotWritten
    /\ reg1 = None
    /\ reg2 = None
    /\ old1 = None
    /\ regs2 = << >>
    /\ results = << >>
    /\ args = None
    /\ rows = << >>
    /\ meta = << >>
    /\ expected = None
    /\ actual = None
    /\ tcase = None
    /\ compared = << >>
    /\ failed_regs = << >>
    /\ regfile = << >>
    /\ procs = << >>

(* regs = XITTestRegistry.fromXML(document); an uncaught exception ends the
   run, pc is then the name of the exception *)
FromXML ==
    /\ pc = "start"
    /\ LET regs == fromXML(document)
       IN  IF regs.raise
           THEN pc' = regs.value.raise /\ UNCHANGED regs1
           ELSE pc' = "decoded" /\ regs1' = regs.value
    /\ UNCHANGED <<reg1, reg2, old1, regs2, results, args, rows, meta, outfile,
                   expected, actual, codecVars, compareVars, editVars>>

(* regs[0].toXML(regs), as create and merge write a registry list *)
ToXML ==
    /\ pc = "decoded"
    /\ Len(regs1) > 0
    /\ outfile' = [written |-> TRUE, doc |-> toXML(regs1[1], regs1)]
    /\ pc' = "encoded"
    /\ UNCHANGED <<reg1, reg2, old1, regs1, regs2, results, args, rows, meta,
                   expected, actual, codecVars, compareVars, editVars>>

NextCodec == FromXML \/ ToXML

SpecCodec == InitCodec /\ [][NextCodec]_vars

(* the testcase elements of a registry element in document order, each
   with the name of its suite *)
RECURSIVE listedIn(_)
listedIn(suites) ==
    IF suites = << >> THEN << >>
    ELSE [i \in 1..Len(Head(suites).testcase) |->
             [suite |-> Head(suites).name, testcase |-> Head(suites).testcase[i]]]
         \o listedIn(Tail(suites))

listed(registry) == listedIn(registry.testsuite)

(* the identities a registry element lists, and the last element it lists
   for an identity *)
listedIds(registry) ==
    { <<listed(registry)[i].suite, listed(registry)[i].testcase.name>> :
        i \in 1..Len(listed(registry)) }
lastListed(registry, id) ==
    LET l == listed(registry)
        at == { i \in 1..Len(l) : <<l[i].suite, l[i].testcase.name>> = id }
    IN  l[CHOOSE i \in at : \A j \in at : j <= i]

(* all testcase elements of a document *)
allListed(doc) ==
    UNION { { listed(doc[r])[i].testcase : i \in 1..Len(listed(doc[r])) } :
              r \in 1..Len(doc) }

(* C14: within one registry an identity (suite, case) has at most one entry
   after any sequence of addTest calls, those of decoding a document that
   lists a test case twice included, and the entry is the whole test of the
   latest addTest for that identity. *)
IdentityUnique ==
    pc \in {"decoded", "encoded"} =>
        \A r \in 1..Len(regs1) :
            /\ \A i, j \in 1..Len(listTestNames(regs1[r])) :
                  (/\ listTestNames(regs1[r])[i][1] = listTestNames(regs1[r])[j][1]
                   /\ listTestNames(regs1[r])[i][2] = listTestNames(regs1[r])[j][2])
                      => i = j
            /\ identities(regs1[r]) = listedIds(document[r])
            /\ \A id \in listedIds(document[r]) :
                  getTest(regs1[r], id[1], id[2]) =
                      decodeTestcase(lastListed(document[r], id).suite,
                                     lastListed(document[r], id).testcase).value

(* a decoded document that lists one test case twice, with different
   statuses and different bugs *)
ListedTwiceWitness ==
    /\ pc = "decoded"
    /\ \E r \in 1..Len(document) : \E i, j \in 1..Len(listed(document[r])) :
          /\ i < j
          /\ listed(document[r])[i].suite = listed(document[r])[j].suite
          /\ listed(document[r])[i].testcase.name = listed(document[r])[j].testcase.name
          /\ listed(document[r])[i].testcase.success = "0"
          /\ listed(document[r])[j].testcase.success = "true"
          /\ Len(listed(document[r])[i].testcase.bug) > 0

(* what a document says: per registry element its name and, per identity
   it lists, the status and the sets of bugs, fixes and notes of the last
   listing, a missing type read as the default of its element *)
kindOf(elem, default) ==
    IF "type" \in DOMAIN elem.attrib THEN elem.attrib["type"] ELSE default
entrySet(elems, default) ==
    { <<kindOf(elems[i], default), elems[i].text>> : i \in 1..Len(elems) }
meaningOfTest(e) ==
    [suite |-> e.suite, name |-> e.testcase.name,
     status |-> e.testcase.success \in {"True", "true", "1"},
     bugs |-> entrySet(e.testcase.bug, "bugzilla"),
     fixes |-> entrySet(e.testcase.fix, "git"),
     notes |-> entrySet(e.testcase.testinfo, "text")]
meaningOf(doc) ==
    { [name |-> doc[r].name,
       tests |-> { meaningOfTest(lastListed(doc[r], id)) : id \in listedIds(doc[r]) }] :
        r \in 1..Len(doc) }

(* a well-formed document: every success text is a boolean token and every
   fix and note type that is given is a known one *)
WellFormed(doc) ==
    \A t \in allListed(doc) :
        /\ t.success \in {"True", "true", "1", "False", "false", "0"}
        /\ \A i \in 1..Len(t.fix) : kindOf(t.fix[i], "git") \in {"git", "rpm"}
        /\ \A i \in 1..Len(t.testinfo) : kindOf(t.testinfo[i], "text") \in {"text", "url"}

(* C15: round trip.  Every well-formed document is decoded by fromXML, and
   the document toXML writes for the decoded registries says the same as
   the original: the same registries, identities, statuses and bug, fix and
   note sets, whatever the order of the elements of the original. *)
RoundTrip ==
    (pc # "start" /\ WellFormed(document)) =>
        /\ pc \in {"decoded", "encoded"}
        /\ pc = "encoded" => meaningOf(outfile.doc) = meaningOf(document)

(* C16: decoding does not fail on a missing optional attribute: a bug
   without type is decoded as a "bugzilla" bug, a fix without type as a
   "git" fix, a moduleversion without repo with no repo. *)
DecodeDefaults ==
    (pc # "start" /\ WellFormed(document)) =>
        /\ pc \notin {"KeyError", "ValueError"}
        /\ \A r \in 1..Len(regs1) :
              /\ \A id \in listedIds(document[r]) :
                    LET e == lastListed(document[r], id).testcase
                        t == getTest(regs1[r], id[1], id[2])
                    IN  /\ \A i \in 1..Len(e.bug) :
                              "type" \notin DOMAIN e.bug[i].attrib
                                  => contains(t.bugs, XITBug("bugzilla", e.bug[i].text))
                        /\ \A i \in 1..Len(e.fix) :
                              "type" \notin DOMAIN e.fix[i].attrib
                                  => contains(t.fixes, XITFix("git", e.fix[i].text))
              /\ \A i \in 1..Len(document[r].moduleversion) :
                    "repo" \notin DOMAIN document[r].moduleversion[i].attrib
                        => regs1[r].moduleversions[i].repo = NoRepo

(* ascending order of a list of (type, text) keys and of a list of names *)
ascendingKeys(elems) ==
    \A i \in 1..(Len(elems) - 1) :
        \/ typeOrd(elems[i].attrib["type"]) < typeOrd(elems[i + 1].attrib["type"])
        \/ /\ elems[i].attrib["type"] = elems[i + 1].attrib["type"]
           /\ elems[i].text <= elems[i + 1].text
ascendingNames(elems) ==
    \A i \in 1..(Len(elems) - 1) : elems[i].name <= elems[i + 1].name

(* C17: every document toXML writes lists the registries in ascending order
   of name, the suites of a registry and the cases of a suite in ascending
   order of name, and the bugs, fixes and notes of a test in ascending
   (type, text) order, whatever the order of the input. *)
EncodedSorted ==
    outfile.written =>
        /\ ascendingNames(outfile.doc)
        /\ \A r \in 1..Len(outfile.doc) :
              /\ ascendingNames(outfile.doc[r].testsuite)
              /\ \A s \in 1..Len(outfile.doc[r].testsuite) :
                    /\ ascendingNames(outfile.doc[r].testsuite[s].testcase)
                    /\ \A c \in 1..Len(outfile.doc[r].testsuite[s].testcase) :
                          LET t == outfile.doc[r].testsuite[s].testcase[c]
                          IN  /\ ascendingKeys(t.bug)
                              /\ ascendingKeys(t.fix)
                              /\ ascendingKeys(t.testinfo)

(* a document holds a fix or note of a type no class knows, or a success
   text that is no boolean token; a fix without a type attribute *)
hasUnknown(doc) == ~WellFormed(doc)
hasUntypedFix(doc) ==
    \E t \in allListed(doc) : \E i \in 1..Len(t.fix) : "type" \notin DOMAIN t.fix[i].attrib
hasUnknownBug(doc) ==
    \E t \in allListed(doc) : \E i \in 1..Len(t.bug) :
        kindOf(t.bug[i], "bugzilla") # "bugzilla"

(* the types of the fixes, notes and bugs stored in the decoded registries *)
storedKinds(field) ==
    UNION { UNION { { getTest(regs1[r], id[1], id[2])[field][i].type :
                        i \in 1..Len(getTest(regs1[r], id[1], id[2])[field]) } :
                    id \in identities(regs1[r]) } :
            r \in 1..Len(regs1) }

(* C18 as stated: an unrecognized type of bug, fix or note, and a success
   text that is no boolean token, makes decoding fail with a ValueError; no
   entry of an unknown type is ever stored in a test case. *)
UnknownKindsRejected ==
    /\ (pc # "start" /\ (hasUnknown(document) \/ hasUnknownBug(document)))
          => pc \in {"ValueError", "KeyError"}
    /\ storedKinds("fixes") \subseteq {"git", "rpm"}
    /\ storedKinds("info") \subseteq {"text", "url"}
    /\ storedKinds("bugs") \subseteq {"bugzilla"}

(* C18 as amended: an unrecognized type of fix or note, and a success text
   that is no boolean token, makes decoding fail: with a ValueError, or
   with the KeyError of a fix without type if the document holds one; no
   fix or note of an unknown type is ever stored.  The type of a bug is
   not checked. *)
UnknownFixAndNoteKindsRejected ==
    /\ (pc # "start" /\ hasUnknown(document)) => pc \in {"ValueError", "KeyError"}
    /\ (pc # "start" /\ hasUnknown(document) /\ ~hasUntypedFix(document))
          => pc = "ValueError"
    /\ storedKinds("fixes") \subseteq {"git", "rpm"}
    /\ storedKinds("info") \subseteq {"text", "url"}

(* the decoding of a document whose only flaw is a fix of an unknown type
   ended in a ValueError *)
UnknownFixWitness ==
    /\ pc = "ValueError"
    /\ \E t \in allListed(document) : \E i \in 1..Len(t.fix) :
          kindOf(t.fix[i], "git") = "other"
    /\ \A t \in allListed(document) :
          /\ t.success \in {"True", "true", "1", "False", "false", "0"}
          /\ \A i \in 1..Len(t.testinfo) :
                kindOf(t.testinfo[i], "text") \in {"text", "url"}

---------------------------------------------------------------------------
(* verify with the module-version check *)

(* C19: a failure of the package-version query during verify --check-all
   does not abort verify: the classified rows are produced, and they are the
   rows verify produces without --check-all. *)
CheckAllAdvisory ==
    (args.cmd = "verify" /\ args.check_all /\ pc \in {"done", "raise"}) =>
        /\ pc = "done"
        /\ rows = verify_rows(reg1, sortedCases(results))

---------------------------------------------------------------------------
(* Editing a registry file in place *)

(* the edit invocations running on one file *)
Procs == {1, 2}

(* an uncaught lxml XMLSyntaxError: the file is not an XML document *)
XMLSyntaxError == [raise |-> "XMLSyntaxError"]

(* a file that holds the document doc; a file that open(path, "w") has
   truncated; a file in which the output of two writers overlaps *)
FileWith(doc) == [state |-> "ok", doc |-> doc]
EmptyFile == [state |-> "empty", doc |-> << >>]
GarbledFile == [state |-> "garbled", doc |-> << >>]

(* testcase.addBug(XITBug("bugzilla", args.url)) on the test of the loaded
   registry *)
add_bug_to(registry, a) ==
    [registry EXCEPT !.tests[a.testsuite][a.testcase] =
        addBug(@, XITBug("bugzilla", a.url))]

(* add_bug up to the write, on the registries fromXML decoded from
   args.file: load_one_registry, getTest, exit if there is no such test,
   addBug *)
add_bug(a, registries) ==
    LET registry == load_one_registry(a, registries)
    IN  IF registry.exit THEN [outcome |-> "exit", registry |-> None]
        ELSE IF IsNone(getTest(registry.value, a.testsuite, a.testcase))
        THEN [outcome |-> "exit", registry |-> None]
        ELSE [outcome |-> "edited", registry |-> add_bug_to(registry.value, a)]

(* add_bug up to the write, on the file as it is: fromXML raises unless the
   file holds a document *)
load_and_add_bug(a, content) ==
    IF content.state # "ok" THEN [outcome |-> "raise", registry |-> None]
    ELSE add_bug(a, fromXML(content.doc).value)

(* the registry lists whose document the file holds at the start: one
   registry with two tests, or two registries with one test each *)
EditedFiles ==
    { <<XITTestRegistry(1, <<XITTest(1, 1, TRUE), XITTest(1, 2, FALSE)>>)>>,
      <<XITTestRegistry(1, <<XITTest(1, 1, TRUE)>>),
        XITTestRegistry(2, <<XITTest(1, 1, FALSE)>>)>> }

(* xit-bug-registry -f file [-r name] add-bug suite case url: invocation p
   adds the bug with url p *)
EditArgs(p) ==
    { [cmd |-> "add-bug", regname |-> n, testsuite |-> id[1], testcase |-> id[2],
       url |-> p] : n \in {NoName} \cup DocNames, id \in Identity }

(* two add-bug invocations on one file, each of which names a test that the
   registry it selects holds; after tells whether the other invocation had
   completed when this one read the file *)
InitEdit ==
    /\ pc = "start"
    /\ \E regs \in EditedFiles : regfile = FileWith(toXML(regs[1], regs))
    /\ \E a \in [Procs -> UNION { EditArgs(p) : p \in Procs }] :
          /\ \A p \in Procs : a[p] \in EditArgs(p)
                                /\ load_and_add_bug(a[p], regfile).outcome = "edited"
          /\ procs = [p \in Procs |->
                        [pc |-> "start", args |-> a[p], registry |-> None,
                         after |-> FALSE]]
    /\ reg1 = None
    /\ reg2 = None
    /\ old1 = None
    /\ regs1 = << >>
    /\ regs2 = << >>
    /\ results = << >>
    /\ args = None
    /\ rows = << >>
    /\ meta = << >>
    /\ outfile = NotWritten
    /\ expected = None
    /\ actual = None
    /\ document = << >>
    /\ tcase = None
    /\ compared = << >>
    /\ failed_regs = << >>

(* add_bug of invocation p, from load_one_registry to the in-memory
   registry.toXML(): reads the file once *)
LoadAndEdit(p) ==
    /\ procs[p].pc = "start"
    /\ LET e == load_and_add_bug(procs[p].args, regfile)
       IN  procs' = [procs EXCEPT
                        ![p].pc = e.outcome,
                        ![p].registry = e.registry,
                        ![p].after = \E q \in Procs \ {p} :
                                         procs[q].pc \in {"done", "exit", "raise"}]
    /\ UNCHANGED <<pc, reg1, reg2, old1, regs1, regs2, results, args, rows, meta,
                   outfile, expected, actual, codecVars, compareVars, regfile>>

(* sync_registry of invocation p: open(args.file, "w") truncates the file *)
OpenForWrite(p) ==
    /\ procs[p].pc = "edited"
    /\ regfile' = EmptyFile
    /\ procs' = [procs EXCEPT ![p].pc = "opened"]
    /\ UNCHANGED <<pc, reg1, reg2, old1, regs1, regs2, results, args, rows, meta,
                   outfile, expected, actual, codecVars, compareVars>>

(* sync_registry of invocation p: shutil.copyfileobj writes registry.toXML()
   from the start of the file; if another writer has written since the
   truncation the two outputs overlap, and the file holds this document
   only if it is at least as long as the other *)
CopyToFile(p) ==
    /\ procs[p].pc = "opened"
    /\ \/ regfile' = FileWith(toXML(procs[p].registry, << >>))
       \/ regfile.state # "empty" /\ regfile' = GarbledFile
    /\ procs' = [procs EXCEPT ![p].pc = "done"]
    /\ UNCHANGED <<pc, reg1, reg2, old1, regs1, regs2, results, args, rows, meta,
                   outfile, expected, actual, codecVars, compareVars>>

NextEdit == \E p \in Procs : LoadAndEdit(p) \/ OpenForWrite(p) \/ CopyToFile(p)

SpecEdit == InitEdit /\ [][NextEdit]_vars

(* both invocations have ended; one of them had completed before the other
   read the file *)
bothEnded == \A p \in Procs : procs[p].pc \in {"done", "exit", "raise"}
sequential == \E p \in Procs : procs[p].after

(* the file holds the change of invocation p: the bug with url p on the
   test p named *)
holdsChange(p) ==
    /\ regfile.state = "ok"
    /\ \E r \in 1..Len(fromXML(regfile.doc).value) :
          LET t == getTest(fromXML(regfile.doc).value[r],
                           procs[p].args.testsuite, procs[p].args.testcase)
          IN  t # None /\ contains(t.bugs, XITBug("bugzilla", p))

(* C20: edit invocations are not protected against each other: two
   interleaved invocations on one file can end with the file lacking the
   change of one of them, whereas every execution in which one invocation
   completes before the other starts ends with both changes in the file. *)
SequentialEditsKeepBoth ==
    (bothEnded /\ sequential) => \A p \in Procs : holdsChange(p)

(* two interleaved invocations have both written, and the file lacks the
   change of one of them *)
LostUpdate ==
    /\ \A p \in Procs : procs[p].pc = "done"
    /\ ~sequential
    /\ regfile.state = "ok"
    /\ \E p \in Procs : ~holdsChange(p)

---------------------------------------------------------------------------
(* verify on a file with several registries *)

(* the registries the file can hold under one name; the last one records
   an rpm module version *)
VerifyRegistries(name) ==
    { XITTestRegistry(name, <<XITTest(1, 1, TRUE)>>),
      XITTestRegistry(name, <<XITTest(1, 1, FALSE), XITTest(1, 2, TRUE)>>),
      [XITTestRegistry(name, <<XITTest(1, 2, FALSE)>>)
          EXCEPT !.moduleversions = <<XITModuleVersion(1, 1, "rpm", NoRepo)>>] }

(* the files fromXML can decode: up to MaxRegs registries in any order, a
   name possibly more than once *)
RECURSIVE VerifyDocuments(_)
VerifyDocuments(n) ==
    IF n = 0 THEN { << >> }
    ELSE VerifyDocuments(n - 1)
         \cup { Append(d, r) :
                  d \in { x \in VerifyDocuments(n - 1) : Len(x) = n - 1 },
                  r \in UNION { VerifyRegistries(name) : name \in RegNames } }

(* the paths of the results file: n.xml for every registry name n,
   dir/1.xml.xml and a file 1 without suffix *)
ResultsPaths ==
    { ResultsFile(<< >>, n, <<".xml">>) : n \in RegNames }
    \cup { ResultsFile(<<1>>, 1, <<".xml", ".xml">>), ResultsFile(<< >>, 1, << >>) }

(* the live results of the results file *)
VerifyResults ==
    { << >>, <<JUnitTestResult(1, 2, 0), JUnitTestResult(1, 1, 1)>> }

(* xit-bug-registry -f file [-r name] verify [--check-all] results *)
InitVerifyDocs ==
    /\ pc = "start"
    /\ regs1 \in VerifyDocuments(MaxRegs)
    /\ results \in VerifyResults
    /\ \E check_all \in BOOLEAN : \E regname \in {NoName} \cup RegNames :
       \E path \in ResultsPaths :
          args = [cmd |-> "verify", regname |-> regname, check_all |-> check_all,
                  results |-> path]
    /\ reg1 = None
    /\ reg2 = None
    /\ old1 = None
    /\ regs2 = << >>
    /\ rows = << >>
    /\ meta = << >>
    /\ outfile = NotWritten
    /\ expected = None
    /\ actual = None
    /\ document = << >>
    /\ tcase = None
    /\ compared = << >>
    /\ failed_regs = << >>
    /\ regfile = << >>
    /\ procs = << >>

NextVerifyDocs == Verify

SpecVerifyDocs == InitVerifyDocs /\ [][NextVerifyDocs]_vars

(* the name verify looks for: the one given with -r, else the text of the
   results file's name before ".xml" *)
wantedName == IF args.regname # NoName THEN args.regname ELSE args.results.stem

(* C21: verify works on the registry named with -r when a name is given, and
   on the registry named like the results file (its base name up to ".xml")
   when none is given; rows are only produced against that registry, and
   when no registry has the name the run exits with no rows. *)
VerifySelectsRegistry ==
    (args.cmd = "verify" /\ pc # "start") =>
        IF \E i \in 1..Len(regs1) : regs1[i].name = wantedName
        THEN /\ pc \in {"done", "raise"}
             /\ reg1.name = wantedName
             /\ reg1 = find_reg(wantedName, regs1)
             /\ pc = "done" => rows = verify_rows(reg1, sortedCases(results))
        ELSE /\ pc = "exit"
             /\ reg1 = None
             /\ rows = << >>

(* a verify run without -r on a file of two registries whose second one is
   named like the results file: rows were printed against the second *)
VerifySecondRegistryWitness ==
    /\ args.cmd = "verify"
    /\ args.regname = NoName
    /\ pc = "done"
    /\ Len(regs1) = 2
    /\ regs1[1].name # args.results.stem
    /\ regs1[1].tests # regs1[2].tests
    /\ reg1 = regs1[2]
    /\ Len(rows) = 2

---------------------------------------------------------------------------
(* One edit or meta command on a registry file *)

(* the version string 'none' of set-module-version *)
VersionNone == 0

(* the outcome of a command before the write: it exited, or it holds the
   changed registry *)
Exited == [outcome |-> "exit", registry |-> None]
Edited(registry) == [outcome |-> "edited", registry |-> registry]

(* the registry with testcase replaced by the changed test object t *)
with_test(registry, a, t) == [registry EXCEPT !.tests[a.testsuite][a.testcase] = t]

(* The handlers below are given the registries that fromXML decoded from
   args.file, and end before the write *)

(* rm_bug up to the write *)
rm_bug(a, registries) ==
    LET registry == load_one_registry(a, registries)
    IN  IF registry.exit THEN Exited
        ELSE LET testcase == getTest(registry.value, a.testsuite, a.testcase)
             IN  IF IsNone(testcase) THEN Exited
                 ELSE Edited(with_test(registry.value, a,
                                       removeBug(testcase, XITBug("bugzilla", a.url))))

(* add_fix(args, type, text) up to the write *)
add_fix(a, registries, type, text) ==
    LET registry == load_one_registry(a, registries)
    IN  IF registry.exit THEN Exited
        ELSE LET testcase == getTest(registry.value, a.testsuite, a.testcase)
             IN  IF IsNone(testcase) THEN Exited
                 ELSE Edited(with_test(registry.value, a,
                                       addFix(testcase, XITFix_createFromType(type, text).value)))

(* rm_fix(args, type, text) up to the write *)
rm_fix(a, registries, type, text) ==
    LET registry == load_one_registry(a, registries)
    IN  IF registry.exit THEN Exited
        ELSE LET testcase == getTest(registry.value, a.testsuite, a.testcase)
             IN  IF IsNone(testcase) THEN Exited
                 ELSE Edited(with_test(registry.value, a,
                                       removeFix(testcase, XITFix_createFromType(type, text).value)))

(* the status dict of set_status *)
status == [k \in {"true", "false", "success", "failure"} |-> k \in {"true", "success"}]

(* set_status that takes every token it does not know for a failure *)
set_status_lenient(a, registries) ==
    LET registry == load_one_registry(a, registries)
    IN  IF registry.exit THEN Exited
        ELSE LET testcase == getTest(registry.value, a.testsuite, a.testcase)
             IN  IF IsNone(testcase) THEN Exited
                 ELSE Edited(with_test(registry.value, a,
                                [testcase EXCEPT !.status = a.status \in {"true", "success"}]))

(* set_status up to the write: exit if there is no such test, exit on the
   KeyError of a token that is not in the dict *)
set_status(a, registries) ==
    LET registry == load_one_registry(a, registries)
    IN  IF registry.exit THEN Exited
        ELSE LET testcase == getTest(registry.value, a.testsuite, a.testcase)
             IN  IF IsNone(testcase) THEN Exited
                 ELSE IF a.status \notin DOMAIN status THEN Exited
                 ELSE Edited(with_test(registry.value, a,
                                       [testcase EXCEPT !.status = status[a.status]]))

(* set_date up to the write: the date is the only field it assigns *)
set_date(a, registries) ==
    LET registry == load_one_registry(a, registries)
    IN  IF registry.exit THEN Exited ELSE Edited(registry.value)

(* modversion in registry.moduleversions: == of two module versions is
   __cmp__ = 0, on module, type and version *)
has_modversion(moduleversions, modversion) ==
    \E i \in 1..Len(moduleversions) :
        /\ moduleversions[i].module = modversion.module
        /\ moduleversions[i].type = modversion.type
        /\ moduleversions[i].version = modversion.version

(* set_modversion up to the write: append XITModuleVersion(name, version,
   type) unless the list holds an equal one; type defaults to "git" *)
set_modversion(a, registries) ==
    LET registry == load_one_registry(a, registries)
        type == IF a.type # "" THEN a.type ELSE "git"
        modversion == XITModuleVersion(a.name, a.version, type, NoRepo)
    IN  IF registry.exit THEN Exited
        ELSE IF ~has_modversion(registry.value.moduleversions, modversion)
        THEN Edited([registry.value EXCEPT !.moduleversions = Append(@, modversion)])
        ELSE Edited(registry.value)

(* registry_from_string(args, registry.toXML()): the temporary file is
   copied over args.file *)
registry_from_string(registry) == FileWith(toXML(registry, << >>))

(* the registries of the file at the start: one registry; two registries in
   either order *)
EditRegistry1 ==
    [XITTestRegistry(1, <<addFix(addBug(XITTest(1, 1, TRUE), XITBug("bugzilla", 1)),
                                 XITFix("git", 1)),
                          XITTest(1, 2, FALSE)>>)
        EXCEPT !.moduleversions = <<XITModuleVersion(1, 1, "git", NoRepo)>>]
EditRegistry2 ==
    [XITTestRegistry(2, <<XITTest(1, 1, FALSE)>>)
        EXCEPT !.moduleversions = <<XITModuleVersion(1, 2, "rpm", NoRepo),
                                    XITModuleVersion(2, 1, "git", NoRepo)>>]
EditCmdFiles ==
    { <<EditRegistry1>>, <<EditRegistry1, EditRegistry2>>, <<EditRegistry2, EditRegistry1>> }

(* xit-bug-registry -f file [-r name] edit suite case <action> ..., and
   meta set-date / set-module-version name version [--type t] *)
TestArgs(cmd) ==
    { [cmd |-> cmd, regname |-> n, testsuite |-> id[1], testcase |-> id[2]] :
        n \in {NoName} \cup DocNames, id \in Identity }
EditCmdArgs ==
    { [cmd |-> a.cmd, regname |-> a.regname, testsuite |-> a.testsuite,
       testcase |-> a.testcase, url |-> u] :
         a \in TestArgs("add-bug") \cup TestArgs("rm-bug"), u \in {1, 2} }
    \cup { [cmd |-> a.cmd, regname |-> a.regname, testsuite |-> a.testsuite,
            testcase |-> a.testcase, text |-> t] :
              a \in TestArgs("add-commit") \cup TestArgs("add-rpm")
                    \cup TestArgs("rm-commit") \cup TestArgs("rm-rpm"),
              t \in {1, 2} }
    \cup { [cmd |-> a.cmd, regname |-> a.regname, testsuite |-> a.testsuite,
            testcase |-> a.testcase, status |-> st] :
              a \in TestArgs("set-status"),
              st \in {"true", "false", "success", "failure", "yes"} }
    \cup { [cmd |-> "set-date", regname |-> n] : n \in {NoName} \cup DocNames }
    \cup { [cmd |-> "set-module-version", regname |-> n, name |-> m, version |-> v,
            type |-> t] :
              n \in {NoName} \cup DocNames, m \in {1, 2}, v \in {VersionNone, 1, 2},
              t \in {"", "git", "rpm"} }

(* one invocation on a file: document keeps the content of the file at the
   start, regs1 is what fromXML decodes from it *)
InitEditCmd ==
    /\ pc = "start"
    /\ \E regs \in EditCmdFiles : document = toXML(regs[1], regs)
    /\ regfile = FileWith(document)
    /\ regs1 = fromXML(document).value
    /\ args \in EditCmdArgs
    /\ reg1 = None
    /\ reg2 = None
    /\ old1 = None
    /\ regs2 = << >>
    /\ results = << >>
    /\ rows = << >>
    /\ meta = << >>
    /\ outfile = NotWritten
    /\ expected = None
    /\ actual = None
    /\ tcase = None
    /\ compared = << >>
    /\ failed_regs = << >>
    /\ procs = << >>

(* a command on the decoded file, to its end: on exit nothing is written,
   else registry.toXML() replaces the content of the file; reg1 keeps the
   registry the command loaded and changed *)
Run(e) ==
    /\ pc = "start"
    /\ IF e.outcome = "exit"
       THEN /\ pc' = "exit"
            /\ UNCHANGED <<reg1, regfile>>
       ELSE /\ pc' = "done"
            /\ reg1' = e.registry
            /\ regfile' = registry_from_string(e.registry)
    /\ UNCHANGED <<reg2, old1, regs1, regs2, results, args, rows, meta, outfile,
                   expected, actual, codecVars, compareVars, procs>>

AddBugCmd == args.cmd = "add-bug" /\ Run(add_bug(args, regs1))
RmBugCmd == args.cmd = "rm-bug" /\ Run(rm_bug(args, regs1))
AddCommit == args.cmd = "add-commit" /\ Run(add_fix(args, regs1, "git", args.text))
AddRpm == args.cmd = "add-rpm" /\ Run(add_fix(args, regs1, "rpm", args.text))
RmCommit == args.cmd = "rm-commit" /\ Run(rm_fix(args, regs1, "git", args.text))
RmRpm == args.cmd = "rm-rpm" /\ Run(rm_fix(args, regs1, "rpm", args.text))
SetStatus == args.cmd = "set-status" /\ Run(set_status(args, regs1))
SetDate == args.cmd = "set-date" /\ Run(set_date(args, regs1))
SetModversion == args.cmd = "set-module-version" /\ Run(set_modversion(args, regs1))

NextEditCmd ==
    \/ AddBugCmd
    \/ RmBugCmd
    \/ AddCommit
    \/ AddRpm
    \/ RmCommit
    \/ RmRpm
    \/ SetStatus
    \/ SetDate
    \/ SetModversion

SpecEditCmd == InitEditCmd /\ [][NextEditCmd]_vars

(* the registries the file held at the start and holds now, decoded *)
before == regs1
after == fromXML(regfile.doc).value

(* the registry of a list that the invocation selects: the one named with
   -r, the first one without -r; None if there is none *)
selected(reglist) ==
    IF args.regname # NoName THEN find_reg(args.regname, reglist)
    ELSE IF Len(reglist) > 0 THEN reglist[1] ELSE None

(* the commands that name a test *)
TestCmds ==
    {"add-bug", "rm-bug", "add-commit", "add-rpm", "rm-commit", "rm-rpm", "set-status"}

(* the module versions a registry records for module m *)
versionsOf(registry, m) ==
    { registry.moduleversions[i].version :
        i \in { j \in 1..Len(registry.moduleversions) :
                   registry.moduleversions[j].module = m } }

(* C22: after set-module-version name v the selected registry, as the file
   holds it, records v as the only version of module name, an earlier entry
   of the module being replaced; with v = 'none' it records no entry for the
   module. *)
SetModuleVersionReplaces ==
    (args.cmd = "set-module-version" /\ pc = "done") =>
        LET registry == find_reg(reg1.name, after)
            entries == { i \in 1..Len(registry.moduleversions) :
                            registry.moduleversions[i].module = args.name }
        IN  IF args.version = VersionNone THEN entries = {}
            ELSE /\ Cardinality(entries) = 1
                 /\ versionsOf(registry, args.name) = {args.version}

(* the invocation names a registry or a test that the file does not hold,
   or set-status is given a token that is not a status *)
invalidEdit ==
    \/ /\ args.cmd \in TestCmds
       /\ \/ IsNone(selected(before))
          \/ IsNone(getTest(selected(before), args.testsuite, args.testcase))
    \/ /\ args.cmd = "set-status"
       /\ args.status \notin {"true", "false", "success", "failure"}

(* C23: an edit command that names a test the selected registry does not
   hold, and a set-status with an unknown status token, end in an error exit
   and write nothing: the file holds what it held before the invocation. *)
EditErrorWritesNothing ==
    /\ (pc # "start" /\ invalidEdit) => pc = "exit"
    /\ pc = "exit" => regfile = FileWith(document)

(* set-status with an unknown token on a test the selected registry holds
   has exited *)
BadStatusExitWitness ==
    /\ pc = "exit"
    /\ args.cmd = "set-status"
    /\ args.status = "yes"
    /\ ~IsNone(selected(before))
    /\ ~IsNone(getTest(selected(before), args.testsuite, args.testcase))

(* add-bug on a test the selected registry does not hold has exited *)
MissingTestExit ==
    /\ pc = "exit"
    /\ args.cmd = "add-bug"
    /\ ~IsNone(selected(before))
    /\ IsNone(getTest(selected(before), args.testsuite, args.testcase))

(* the other registries of the file are kept as they were *)
othersKept ==
    \A i \in 1..Len(before) :
        before[i].name # reg1.name => \E j \in 1..Len(after) : after[j] = before[i]

(* in the selected registry the tests other than the named one are kept as
   they were, and no test is added or dropped *)
otherTestsKept ==
    LET old == selected(before)
        new == find_reg(reg1.name, after)
    IN  /\ ~IsNone(new)
        /\ identities(new) = identities(old)
        /\ \A id \in identities(old) :
              (args.cmd \in TestCmds => id # <<args.testsuite, args.testcase>>)
                 => getTest(new, id[1], id[2]) = getTest(old, id[1], id[2])
        /\ args.cmd # "set-module-version" => new.moduleversions = old.moduleversions

(* C24: an edit or meta command changes only the selected registry: after
   the rewrite every other registry of the file is still in the file with
   the same tests and metadata, and in the selected registry every test other
   than the edited one is unchanged. *)
EditChangesOnlySelected ==
    pc = "done" => othersKept /\ otherTestsKept

====
